---- MODULE Spec2Model ----
(***************************************************************************)
(* Knowledge-graph builder of the Python convention analyzer               *)
(* (lib/graph-builder.ts, buildKnowledgeGraphFromParsedModules) as a state *)
(* machine.  Strings are sequences of one-character strings, so that       *)
(* template literals, String.split, String.endsWith and the `<` of the     *)
(* sort comparators are modelled by what they do on characters.            *)
(***************************************************************************)
EXTENDS Integers, Sequences, FiniteSets, Bags, TLC

VARIABLES
    files,                        \* the UploadedFile[] of the current invocation
    pc,                           \* position in buildKnowledgeGraphFromParsedModules
    idx,                          \* index (1-based) of the module the current loop is at
    nodeById,                     \* Map<string, CodeNode>, in insertion order
    edgeWeightByKey,              \* Map<EdgeKey, number>, in insertion order
    topLevelFuncByModuleAndName,  \* Map `${module}::${name}` -> nodeId
    classByModuleAndName,         \* Map `${module}::${class}` -> nodeId
    methodByModuleClassAndName,   \* Map `${module}::${class}::${method}` -> nodeId
    graph,                        \* the returned KnowledgeGraph ({nodes, edges})
    emitted,                      \* history: one record per addEdge call, in call order
    history,                      \* history: the inputs of the completed invocations
    firstGraph,                   \* history: graph returned by the first invocation
    parseInput,                   \* the content and the ParseOptions given to the parser
    parseOutput,                  \* what parseSingleFile returned (none or one result)
    blockCall,                    \* a call of findBlockEnd with its result (none or one)
    request,                      \* one POST /api/analyze: its body, position and response
    page,                         \* the state of the Home page (stage, graph, requests)
    view,                         \* the props and state of the KnowledgeGraph component
    uploader                      \* the state of CodeUploader and its drops in progress

vars == <<files, pc, idx, nodeById, edgeWeightByKey, topLevelFuncByModuleAndName,
          classByModuleAndName, methodByModuleClassAndName, graph, emitted,
          history, firstGraph, parseInput, parseOutput, blockCall,
          request, page, view, uploader>>

parserVars == <<parseInput, parseOutput, blockCall>>

frontVars == <<request, page, view, uploader>>

\* No request is being handled and no component is mounted.
RouteIdle == request = [pc |-> "idle"]

PageIdle == page = [mounted |-> FALSE]

ViewIdle == view = [mounted |-> FALSE]

UploaderIdle == uploader = [mounted |-> FALSE]

FrontIdle == RouteIdle /\ PageIdle /\ ViewIdle /\ UploaderIdle

\* The parser is not under observation: the graph builder is.
ParserIdle ==
    /\ parseInput = [content |-> <<>>, options |-> [includeDocstrings |-> TRUE]]
    /\ parseOutput = <<>>
    /\ blockCall = <<>>

(***************************************************************************)
(* Characters and strings                                                  *)
(***************************************************************************)

\* The characters used, in ascending UTF-16 code unit order.
Alphabet ==
    << "-", ".", "/",
       "0", "1", "2", "3", "4", "5", "6", "7", "8", "9",
       ":",
       "A", "B", "C", "D", "E", "F", "G", "H", "I", "J", "K", "L", "M",
       "N", "O", "P", "Q", "R", "S", "T", "U", "V", "W", "X", "Y", "Z",
       "[", "]", "_",
       "a", "b", "c", "d", "e", "f", "g", "h", "i", "j", "k", "l", "m",
       "n", "o", "p", "q", "r", "s", "t", "u", "v", "w", "x", "y", "z",
       "|" >>

\* Rank of a character in code unit order.
Code(c) == CHOOSE i \in 1..Len(Alphabet) : Alphabet[i] = c

\* The least and the greatest element of a non-empty set of integers.
Least(S) == CHOOSE x \in S : \A y \in S : x <= y

Greatest(S) == CHOOSE x \in S : \A y \in S : x >= y

Min(a, b) == IF a <= b THEN a ELSE b

Max(a, b) == IF a >= b THEN a ELSE b

\* The positions of s, in order, that satisfy Test.
PositionsWhere(s, Test(_)) == SelectSeq([i \in 1..Len(s) |-> i], Test)

\* The first position from i on where a and b differ or one of them ends.
FirstDiff(a, b, i) ==
    Least({j \in i..Min(Len(a), Len(b)) : a[j] # b[j]} \cup {Max(i, Min(Len(a), Len(b)) + 1)})

\* a < b on JavaScript strings: lexicographic on code units, a proper prefix
\* being smaller.
StrLess(a, b) ==
    LET i == FirstDiff(a, b, 1) IN
    IF i > Len(b) THEN FALSE
    ELSE IF i > Len(a) THEN TRUE
    ELSE Code(a[i]) < Code(b[i])

\* s.includes(c) for a one-character c.
Includes(s, c) == \E i \in 1..Len(s) : s[i] = c

\* s.endsWith(suffix)
EndsWith(s, suffix) ==
    /\ Len(suffix) <= Len(s)
    /\ SubSeq(s, Len(s) - Len(suffix) + 1, Len(s)) = suffix

\* The pieces of s between the separators at the positions breaks.
piecesBetween(s, breaks) ==
    [x \in 1..(Len(breaks) + 1) |->
        SubSeq(s,
               IF x = 1 THEN 1 ELSE breaks[x - 1] + 1,
               IF x > Len(breaks) THEN Len(s) ELSE breaks[x] - 1)]

\* s.split(sep) for a one-character separator: always at least one piece.
Split(s, sep) == piecesBetween(s, PositionsWhere(s, LAMBDA i : s[i] = sep))

Digits == <<"0", "1", "2", "3", "4", "5", "6", "7", "8", "9">>

RECURSIVE NumToStr(_)
\* `${n}` for a non-negative integer.
NumToStr(n) ==
    IF n < 10 THEN <<Digits[n + 1]>>
    ELSE NumToStr(n \div 10) \o <<Digits[(n % 10) + 1]>>

\* JavaScript's undefined where a string or object is expected, and where a
\* number is expected.
Undefined == <<"undefined">>
UndefinedNum == -1

\* a || b on optional strings: the empty string and undefined are falsy.
OrElse(a, b) == IF a = Undefined \/ a = <<>> THEN b ELSE a

\* a ?? b on optional numbers.
Coalesce(a, b) == IF a = UndefinedNum THEN b ELSE a

\* String literals of the builder.
SModule   == <<"m", "o", "d", "u", "l", "e">>
SClass    == <<"c", "l", "a", "s", "s">>
SFunction == <<"f", "u", "n", "c", "t", "i", "o", "n">>
SVariable == <<"v", "a", "r", "i", "a", "b", "l", "e">>
SExternal == <<"e", "x", "t", "e", "r", "n", "a", "l">>
SDefines  == <<"d", "e", "f", "i", "n", "e", "s">>
SImports  == <<"i", "m", "p", "o", "r", "t", "s">>
SCalls    == <<"c", "a", "l", "l", "s">>
SInherits == <<"i", "n", "h", "e", "r", "i", "t", "s">>
SUses     == <<"u", "s", "e", "s">>
SSelf     == <<"s", "e", "l", "f">>
SCls      == <<"c", "l", "s">>
Colon     == <<":">>
ColonColon == <<":", ":">>
Bar       == <<"|">>
Dot       == <<".">>

(***************************************************************************)
(* Map<K, V>: a sequence of [k, v] entries in insertion order.  Map.set on *)
(* a key already present replaces the value and keeps the position.        *)
(***************************************************************************)

MapHas(m, k) == \E i \in 1..Len(m) : m[i].k = k

MapIndex(m, k) == CHOOSE i \in 1..Len(m) : m[i].k = k

\* Map.get for a key that is present.
MapGet(m, k) == m[MapIndex(m, k)].v

MapSet(m, k, v) ==
    IF MapHas(m, k)
    THEN [m EXCEPT ![MapIndex(m, k)] = [k |-> k, v |-> v]]
    ELSE Append(m, [k |-> k, v |-> v])

(***************************************************************************)
(* Node identifiers                                                        *)
(***************************************************************************)

moduleNodeId(moduleName) ==
    moduleName \o Colon \o SModule \o Colon \o moduleName \o Colon \o <<"1">>

\* A class id without its line.
classNodeIdWithoutLine(moduleName, className, line) ==
    moduleName \o Colon \o SClass \o Colon \o className

classNodeId(moduleName, className, line) ==
    moduleName \o Colon \o SClass \o Colon \o className \o Colon \o NumToStr(line)

functionNodeId(moduleName, name, line) ==
    moduleName \o Colon \o SFunction \o Colon \o name \o Colon \o NumToStr(line)

variableNodeId(moduleName, name, line) ==
    moduleName \o Colon \o SVariable \o Colon \o name \o Colon \o NumToStr(line)

externalModuleNodeId(moduleName) ==
    SExternal \o Colon \o SModule \o Colon \o moduleName \o Colon \o <<"0">>

\* A mutation of externalFunctionNodeId: the placeholder id ends in 7.
externalFunctionNodeIdAtLineSeven(qualified) ==
    SExternal \o Colon \o SFunction \o Colon \o qualified \o Colon \o <<"7">>

externalFunctionNodeId(qualified) ==
    SExternal \o Colon \o SFunction \o Colon \o qualified \o Colon \o <<"0">>

externalClassNodeId(className) ==
    SExternal \o Colon \o SClass \o Colon \o className \o Colon \o <<"0">>

\* The index keys `${module}::${name}` and `${module}::${class}::${method}`.
Key2(moduleName, name) == moduleName \o ColonColon \o name

Key3(moduleName, className, name) ==
    moduleName \o ColonColon \o className \o ColonColon \o name

\* The edge key `${source}|${relation}|${target}`.
EdgeKey(source, relation, target) == source \o Bar \o relation \o Bar \o target

(***************************************************************************)
(* Builder state.  The operators below thread a record b holding the maps  *)
(* the function body declares (nodeById, edgeWeightByKey and the three     *)
(* resolution indexes) plus the history of addEdge calls.                  *)
(***************************************************************************)

\* { ...(node.metadata ?? {}), ...(existing.metadata ?? {}) }
MergeMetadata(nodeMd, existingMd) ==
    [k \in DOMAIN nodeMd \cup DOMAIN existingMd |->
        IF k \in DOMAIN existingMd THEN existingMd[k] ELSE nodeMd[k]]

\* The merged node of upsertNode when the id is already present.
MergedNode(existing, node) ==
    [ id       |-> existing.id,
      label    |-> OrElse(existing.label, node.label),
      type     |-> OrElse(existing.type, node.type),
      filePath |-> OrElse(existing.filePath, node.filePath),
      line     |-> Coalesce(existing.line, node.line),
      column   |-> Coalesce(existing.column, node.column),
      metadata |-> MergeMetadata(node.metadata, existing.metadata) ]

upsertNode(b, node) ==
    IF ~MapHas(b.nodeById, node.id)
    THEN [b EXCEPT !.nodeById = MapSet(@, node.id, node)]
    ELSE [b EXCEPT !.nodeById =
             MapSet(@, node.id, MergedNode(MapGet(b.nodeById, node.id), node))]

addEdge(b, source, relation, target) ==
    LET key  == EdgeKey(source, relation, target)
        prev == IF MapHas(b.edgeWeightByKey, key) THEN MapGet(b.edgeWeightByKey, key) ELSE 0
    IN  [b EXCEPT !.edgeWeightByKey = MapSet(@, key, prev + 1)]

\* addEdge, recorded in the history with the place of the input it was called for.
emitEdge(b, site, source, relation, target) ==
    [addEdge(b, source, relation, target) EXCEPT
        !.emitted = Append(@, [site |-> site, source |-> source,
                               relation |-> relation, target |-> target])]

\* A place of the input: file index, class index (0: none), function or method
\* index (0: none), position of the call site, base-class name or import (0: none).
Site(kind, file, cls, fn, pos) ==
    [kind |-> kind, file |-> file, cls |-> cls, fn |-> fn, pos |-> pos]

\* A CodeNode as the builder constructs it (column is never given).
Node(id, label, type, filePath, line, metadata) ==
    [ id |-> id, label |-> label, type |-> type, filePath |-> filePath,
      line |-> line, column |-> UndefinedNum, metadata |-> metadata ]

ExternalNode(id, label, type) ==
    Node(id, label, type, Undefined, UndefinedNum, [external |-> TRUE])

\* The node literal that ensureModuleNode passes to upsertNode.
ModuleNode(mod) ==
    Node(moduleNodeId(mod.moduleName), mod.moduleName, SModule,
         mod.filePath, 1, [moduleName |-> mod.moduleName])

ensureModuleNode(b, mod) == upsertNode(b, ModuleNode(mod))

(***************************************************************************)
(* Pre-pass (declaration pass) of one module                               *)
(***************************************************************************)

MethodNode(mod, cls, m) ==
    Node(functionNodeId(mod.moduleName, cls.name \o Dot \o m.name, m.lineStart),
         cls.name \o Dot \o m.name, SFunction, mod.filePath, m.lineStart,
         [ module |-> mod.moduleName, class |-> cls.name,
           parameters |-> m.parameters, returnHint |-> m.returnHint,
           isAsync |-> m.isAsync, isPrivate |-> m.isPrivate,
           decorators |-> m.decorators, docstring |-> m.docstring,
           code |-> m.codeExcerpt ])

RECURSIVE PrePassMethods(_, _, _, _, _, _)
PrePassMethods(b, mod, fi, ci, clsId, j) ==
    LET cls == mod.classes[ci] IN
    IF j > Len(cls.methods) THEN b
    ELSE
      LET m    == cls.methods[j]
          node == MethodNode(mod, cls, m)
          b1   == upsertNode(b, node)
          b2   == [b1 EXCEPT !.methodByModuleClassAndName =
                      MapSet(@, Key3(mod.moduleName, cls.name, m.name), node.id)]
          b3   == emitEdge(b2, Site("defines", fi, ci, j, 0), clsId, SDefines, node.id)
      IN  PrePassMethods(b3, mod, fi, ci, clsId, j + 1)

ClassNode(mod, cls) ==
    Node(classNodeId(mod.moduleName, cls.name, cls.lineStart),
         cls.name, SClass, mod.filePath, cls.lineStart,
         [ module |-> mod.moduleName, baseClasses |-> cls.baseClasses,
           decorators |-> cls.decorators, docstring |-> cls.docstring,
           code |-> cls.codeExcerpt ])

RECURSIVE PrePassClasses(_, _, _, _)
PrePassClasses(b, mod, fi, i) ==
    IF i > Len(mod.classes) THEN b
    ELSE
      LET cls  == mod.classes[i]
          node == ClassNode(mod, cls)
          b1   == upsertNode(b, node)
          b2   == [b1 EXCEPT !.classByModuleAndName =
                      MapSet(@, Key2(mod.moduleName, cls.name), node.id)]
          b3   == emitEdge(b2, Site("defines", fi, i, 0, 0),
                           moduleNodeId(mod.moduleName), SDefines, node.id)
          b4   == PrePassMethods(b3, mod, fi, i, node.id, 1)
      IN  PrePassClasses(b4, mod, fi, i + 1)

FunctionNode(mod, fn) ==
    Node(functionNodeId(mod.moduleName, fn.name, fn.lineStart),
         fn.name, SFunction, mod.filePath, fn.lineStart,
         [ module |-> mod.moduleName,
           parameters |-> fn.parameters, returnHint |-> fn.returnHint,
           isAsync |-> fn.isAsync, isPrivate |-> fn.isPrivate,
           decorators |-> fn.decorators, docstring |-> fn.docstring,
           code |-> fn.codeExcerpt ])

RECURSIVE PrePassFunctions(_, _, _, _)
PrePassFunctions(b, mod, fi, i) ==
    IF i > Len(mod.functions) THEN b
    ELSE
      LET fn   == mod.functions[i]
          node == FunctionNode(mod, fn)
          b1   == upsertNode(b, node)
          b2   == [b1 EXCEPT !.topLevelFuncByModuleAndName =
                      MapSet(@, Key2(mod.moduleName, fn.name), node.id)]
          b3   == emitEdge(b2, Site("defines", fi, 0, i, 0),
                           moduleNodeId(mod.moduleName), SDefines, node.id)
      IN  PrePassFunctions(b3, mod, fi, i + 1)

VariableNode(mod, v) ==
    Node(variableNodeId(mod.moduleName, v.name, v.line),
         v.name, SVariable, mod.filePath, v.line,
         [ module |-> mod.moduleName, valueSnippet |-> v.valueSnippet ])

RECURSIVE PrePassVariables(_, _, _, _)
PrePassVariables(b, mod, fi, i) ==
    IF i > Len(mod.variables) THEN b
    ELSE
      LET node == VariableNode(mod, mod.variables[i])
          b1   == upsertNode(b, node)
          b2   == emitEdge(b1, Site("defines", fi, 0, 0, i),
                           moduleNodeId(mod.moduleName), SDefines, node.id)
      IN  PrePassVariables(b2, mod, fi, i + 1)

\* The body of the pre-pass loop for module number fi.
PrePassModule(b, mod, fi) ==
    PrePassVariables(
        PrePassFunctions(
            PrePassClasses(ensureModuleNode(b, mod), mod, fi, 1),
            mod, fi, 1),
        mod, fi, 1)

(***************************************************************************)
(* Reference pass of one module                                            *)
(***************************************************************************)

\* An array push instead of Set.add: duplicates are kept.
SetAddKeepingDuplicates(set, x) == Append(set, x)

\* Set.add on a Set kept in insertion order.
SetAdd(set, x) == IF \E i \in 1..Len(set) : set[i] = x THEN set ELSE Append(set, x)

\* n.alias ?? raw.split(".")[0]
AsName(n) == IF n.alias = Undefined THEN Split(n.name, ".")[1] ELSE n.alias

\* n.alias ?? n.name
SymName(n) == IF n.alias = Undefined THEN n.name ELSE n.alias

RECURSIVE ImportNames(_, _, _)
\* The inner loops over imp.names: acc is [alias, imported].
ImportNames(acc, imp, j) ==
    IF j > Len(imp.names) THEN acc
    ELSE
      LET n == imp.names[j] IN
      IF imp.importType = "import"
      THEN ImportNames([alias    |-> MapSet(acc.alias, AsName(n), n.name),
                        imported |-> SetAdd(acc.imported, Split(n.name, ".")[1])],
                       imp, j + 1)
      ELSE ImportNames([alias    |-> MapSet(acc.alias, SymName(n),
                                            imp.module \o Dot \o n.name),
                        imported |-> acc.imported],
                       imp, j + 1)

RECURSIVE ImportTables(_, _, _)
\* The loop over mod.imports: aliasToQualified and importedModules.
ImportTables(acc, mod, i) ==
    IF i > Len(mod.imports) THEN acc
    ELSE
      LET imp == mod.imports[i]
          a1  == ImportNames(acc, imp, 1)
          a2  == IF imp.importType = "from"
                 THEN [a1 EXCEPT !.imported = SetAdd(@, Split(imp.module, ".")[1])]
                 ELSE a1
      IN  ImportTables(a2, mod, i + 1)

aliasToQualified(mod) == ImportTables([alias |-> <<>>, imported |-> <<>>], mod, 1).alias

importedModules(mod) == ImportTables([alias |-> <<>>, imported |-> <<>>], mod, 1).imported

RECURSIVE ImportEdges(_, _, _, _)
\* Module-level import edges to external module nodes.
ImportEdges(b, mod, fi, i) ==
    LET imported == importedModules(mod) IN
    IF i > Len(imported) THEN b
    ELSE
      LET mName    == imported[i]
          extModId == externalModuleNodeId(mName)
          b1       == upsertNode(b, ExternalNode(extModId, mName, SModule))
          b2       == emitEdge(b1, Site("imports", fi, 0, 0, i),
                               moduleNodeId(mod.moduleName), SImports, extModId)
      IN  ImportEdges(b2, mod, fi, i + 1)

\* node.metadata = { ...(node.metadata ?? {}), ...md } with md = { importAliases }
modNodeByIdSetMetadata(node, aliases) ==
    [node EXCEPT !.metadata =
        [k \in DOMAIN node.metadata \cup {"importAliases"} |->
            IF k = "importAliases" THEN aliases ELSE node.metadata[k]]]

\* Attach the alias map to the module node.
AttachAliases(b, mod) ==
    LET id == moduleNodeId(mod.moduleName) IN
    IF MapHas(b.nodeById, id)
    THEN [b EXCEPT !.nodeById =
             MapSet(@, id, modNodeByIdSetMetadata(MapGet(b.nodeById, id),
                                                  aliasToQualified(mod)))]
    ELSE b

\* What one call site resolves to: the relation, the target id and, for an
\* external target, the label of the placeholder node that is upserted.
Resolution(relation, target, external, label) ==
    [relation |-> relation, target |-> target, external |-> external, label |-> label]

ResolveExternal(qualified) ==
    Resolution(SUses, externalFunctionNodeId(qualified), TRUE, qualified)

\* The branch for a callee token that contains a dot.
ResolveDotted(b, mod, withinClass, alias, name) ==
    LET parts      == Split(name, ".")
        base       == parts[1]
        rest       == Tail(parts)
        methodName == rest[Len(rest)]
    IN
    IF base = SSelf \/ base = SCls
    THEN IF /\ withinClass # Undefined
            /\ MapHas(b.methodByModuleClassAndName,
                      Key3(mod.moduleName, withinClass, methodName))
         THEN Resolution(SCalls,
                         MapGet(b.methodByModuleClassAndName,
                                Key3(mod.moduleName, withinClass, methodName)),
                         FALSE, <<>>)
         ELSE ResolveExternal(methodName)
    ELSE IF /\ MapHas(b.classByModuleAndName, Key2(mod.moduleName, base))
            /\ MapHas(b.methodByModuleClassAndName,
                      Key3(mod.moduleName, base, methodName))
         THEN Resolution(SCalls,
                         MapGet(b.methodByModuleClassAndName,
                                Key3(mod.moduleName, base, methodName)),
                         FALSE, <<>>)
         ELSE ResolveExternal(IF MapHas(alias, base) THEN MapGet(alias, base) ELSE name)

\* The branch for a simple function name.
ResolveSimple(b, mod, withinClass, alias, name) ==
    IF MapHas(b.topLevelFuncByModuleAndName, Key2(mod.moduleName, name))
    THEN Resolution(SCalls,
                    MapGet(b.topLevelFuncByModuleAndName, Key2(mod.moduleName, name)),
                    FALSE, <<>>)
    ELSE IF /\ withinClass # Undefined
            /\ MapHas(b.methodByModuleClassAndName,
                      Key3(mod.moduleName, withinClass, name))
         THEN Resolution(SCalls,
                         MapGet(b.methodByModuleClassAndName,
                                Key3(mod.moduleName, withinClass, name)),
                         FALSE, <<>>)
    ELSE IF MapHas(alias, name) /\ MapGet(alias, name) # <<>>
         THEN ResolveExternal(MapGet(alias, name))
    ELSE ResolveExternal(name)

\* Every callee token taken as a simple function name.
ResolveCallAllSimple(b, mod, withinClass, alias, name) ==
    ResolveSimple(b, mod, withinClass, alias, name)

ResolveCall(b, mod, withinClass, alias, name) ==
    IF Includes(name, ".")
    THEN ResolveDotted(b, mod, withinClass, alias, name)
    ELSE ResolveSimple(b, mod, withinClass, alias, name)

RECURSIVE LinkCalls(_, _, _, _, _, _, _, _, _)
\* The loop over fn.calls of linkCallsForFunction.
LinkCalls(b, mod, fn, withinClass, alias, sourceId, fi, ci, k) ==
    IF k > Len(fn.calls) THEN b
    ELSE
      LET r  == ResolveCall(b, mod, withinClass, alias, fn.calls[k].name)
          b1 == IF r.external
                THEN upsertNode(b, ExternalNode(r.target, r.label, SFunction))
                ELSE b
          b2 == emitEdge(b1, Site("call", fi, ci.cls, ci.fn, k),
                         sourceId, r.relation, r.target)
      IN  LinkCalls(b2, mod, fn, withinClass, alias, sourceId, fi, ci, k + 1)

\* fi, ci: the file and the [cls, fn] indexes of fn, for the history only.
linkCallsForFunction(b, mod, fn, withinClass, alias, fi, ci) ==
    LET index == IF withinClass # Undefined
                 THEN b.methodByModuleClassAndName
                 ELSE b.topLevelFuncByModuleAndName
        key   == IF withinClass # Undefined
                 THEN Key3(mod.moduleName, withinClass, fn.name)
                 ELSE Key2(mod.moduleName, fn.name)
    IN  IF ~MapHas(index, key) THEN b
        ELSE LinkCalls(b, mod, fn, withinClass, alias, MapGet(index, key), fi, ci, 1)

RECURSIVE LinkFunctions(_, _, _, _)
LinkFunctions(b, mod, fi, i) ==
    IF i > Len(mod.functions) THEN b
    ELSE LinkFunctions(
            linkCallsForFunction(b, mod, mod.functions[i], Undefined,
                                 aliasToQualified(mod), fi, [cls |-> 0, fn |-> i]),
            mod, fi, i + 1)

RECURSIVE LinkMethods(_, _, _, _, _)
LinkMethods(b, mod, fi, i, j) ==
    IF i > Len(mod.classes) THEN b
    ELSE IF j > Len(mod.classes[i].methods) THEN LinkMethods(b, mod, fi, i + 1, 1)
    ELSE LinkMethods(
            linkCallsForFunction(b, mod, mod.classes[i].methods[j], mod.classes[i].name,
                                 aliasToQualified(mod), fi, [cls |-> i, fn |-> j]),
            mod, fi, i, j + 1)

\* The id of the first entry, in insertion order, whose key ends with `::${className}`;
\* Undefined when there is none.
findClassByNameAnyModule(b, className) ==
    LET m    == b.classByModuleAndName
        hits == {i \in 1..Len(m) : EndsWith(m[i].k, ColonColon \o className)}
    IN  IF hits = {} THEN Undefined
        ELSE m[CHOOSE i \in hits : \A j \in hits : i <= j].v

\* The builder after externalClass(className); the id it returns is externalClassNodeId.
externalClass(b, className) ==
    upsertNode(b, ExternalNode(externalClassNodeId(className), className, SClass))

RECURSIVE InheritBases(_, _, _, _, _, _)
InheritBases(b, mod, fi, ci, derivedId, k) ==
    LET cls == mod.classes[ci] IN
    IF k > Len(cls.baseClasses) THEN b
    ELSE
      LET base == cls.baseClasses[k]
          same == Key2(mod.moduleName, base)
          any  == findClassByNameAnyModule(b, base)
          b1   == IF MapHas(b.classByModuleAndName, same) \/ any # Undefined
                  THEN b ELSE externalClass(b, base)
          baseId == IF MapHas(b.classByModuleAndName, same)
                    THEN MapGet(b.classByModuleAndName, same)
                    ELSE IF any # Undefined THEN any
                    ELSE externalClassNodeId(base)
          b2   == emitEdge(b1, Site("base", fi, ci, 0, k), baseId, SInherits, derivedId)
      IN  InheritBases(b2, mod, fi, ci, derivedId, k + 1)

RECURSIVE InheritClasses(_, _, _, _)
\* Inheritance edges (base -> derived).
InheritClasses(b, mod, fi, i) ==
    IF i > Len(mod.classes) THEN b
    ELSE
      LET key == Key2(mod.moduleName, mod.classes[i].name) IN
      IF ~MapHas(b.classByModuleAndName, key)
      THEN InheritClasses(b, mod, fi, i + 1)
      ELSE InheritClasses(
              InheritBases(b, mod, fi, i, MapGet(b.classByModuleAndName, key), 1),
              mod, fi, i + 1)

\* The body of the reference-pass loop for module number fi.
RefPassModule(b, mod, fi) ==
    InheritClasses(
        LinkMethods(
            LinkFunctions(AttachAliases(ImportEdges(b, mod, fi, 1), mod), mod, fi, 1),
            mod, fi, 1, 1),
        mod, fi, 1)

(***************************************************************************)
(* Materialization and sorting                                             *)
(***************************************************************************)

\* One CodeEdge from an entry of edgeWeightByKey: [source, relation, target] are the
\* first three pieces of key.split("|").
EdgeOf(entry) ==
    LET parts == Split(entry.k, "|") IN
    [ id |-> entry.k, source |-> parts[1], target |-> parts[3], relation |-> parts[2],
      metadata |-> [weight |-> entry.v] ]

RECURSIVE InsertById(_, _)
InsertById(sorted, x) ==
    IF sorted = <<>> THEN <<x>>
    ELSE IF StrLess(x.id, sorted[1].id) THEN <<x>> \o sorted
    ELSE <<sorted[1]>> \o InsertById(Tail(sorted), x)

\* No sorting: the array in insertion order.
SortByIdSkipped(s) == s

RECURSIVE SortById(_)
\* Array.prototype.sort with (a, b) => a.id < b.id ? -1 : a.id > b.id ? 1 : 0 (stable).
SortById(s) ==
    IF s = <<>> THEN <<>>
    ELSE InsertById(SortById(SubSeq(s, 1, Len(s) - 1)), s[Len(s)])

MaterializeEdges(m) == [i \in 1..Len(m) |-> EdgeOf(m[i])]

MaterializeNodes(m) == [i \in 1..Len(m) |-> m[i].v]

(***************************************************************************)
(* The parser (python-parser.ts).  A file content is a string; a line is a *)
(* string without "\n".  Line indexes are 0-based as in the source:        *)
(* LineAt(lines, i) is lines[i].  Character positions are 1-based.  White  *)
(* space is the space, the tab and the line breaks; letters are ASCII.     *)
(***************************************************************************)

LineAt(lines, i) == lines[i + 1]

\* The characters that trim removes and \s matches.
Whitespace == {" ", "\t", "\n", "\r"}

IsSpace(c) == c \in Whitespace

IdentStartChars ==
    { "A", "B", "C", "D", "E", "F", "G", "H", "I", "J", "K", "L", "M",
      "N", "O", "P", "Q", "R", "S", "T", "U", "V", "W", "X", "Y", "Z",
      "a", "b", "c", "d", "e", "f", "g", "h", "i", "j", "k", "l", "m",
      "n", "o", "p", "q", "r", "s", "t", "u", "v", "w", "x", "y", "z", "_" }

\* \w
WordChars == IdentStartChars \cup {"0", "1", "2", "3", "4", "5", "6", "7", "8", "9"}

\* The first position from p on whose character is not in set (Len(s) + 1:
\* none; p itself when p is beyond the end).
SkipWhile(s, p, set) ==
    Least({i \in p..Len(s) : s[i] \notin set} \cup {Max(p, Len(s) + 1)})

SkipSpace(s, p) == SkipWhile(s, p, Whitespace)

\* The last position up to p whose character is not white space (0: none).
LastNonSpace(s, p) == Greatest({i \in 1..p : ~IsSpace(s[i])} \cup {0})

\* s.trim()
Trim(s) == SubSeq(s, SkipSpace(s, 1), LastNonSpace(s, Len(s)))

\* getIndent(s).length: the length of the match of /^[\t ]*/
getIndentLen(s) == SkipWhile(s, 1, {" ", "\t"}) - 1

\* s.startsWith(prefix)
StartsWith(s, prefix) ==
    /\ Len(prefix) <= Len(s)
    /\ SubSeq(s, 1, Len(prefix)) = prefix

\* s has word at position p.
HasAt(s, p, word) ==
    /\ p + Len(word) - 1 <= Len(s)
    /\ SubSeq(s, p, p + Len(word) - 1) = word

LeastOrZero(S) == IF S = {} THEN 0 ELSE Least(S)

\* The first position from p on where word occurs in s (0: none).
IndexFrom(s, word, p) ==
    LeastOrZero({i \in p..(Len(s) - Len(word) + 1) : HasAt(s, i, word)})

\* trimmed === "" || trimmed.startsWith("#")
IsBlankOrComment(line) == Trim(line) = <<>> \/ StartsWith(Trim(line), <<"#">>)

\* map((t) => t.trim()).filter((t) => t.length > 0)
TrimmedNonEmpty(parts) ==
    SelectSeq([i \in 1..Len(parts) |-> Trim(parts[i])], LAMBDA t : t # <<>>)

\* split(",").map((t) => t.trim()).filter((t) => t.length > 0)
SplitTrimmed(s) == TrimmedNonEmpty(Split(s, ","))

NoMatch == [ok |-> FALSE]

\* \s*: at position p4, after the name (and the bases, if any) of a class.
MatchClassColon(line, p4, name, bases) ==
    IF p4 > Len(line) \/ line[p4] # ":" THEN NoMatch
    ELSE [ok |-> TRUE, name |-> name, bases |-> bases]

\* (?:\(([^)]*)\))? with "(" at p3 and the first ")" after it at close (0: none).
MatchClassBases(line, p2, p3, close) ==
    IF close = 0 THEN NoMatch
    ELSE MatchClassColon(line, SkipSpace(line, close + 1), SubSeq(line, p2, p3 - 1),
                         SubSeq(line, p3 + 1, close - 1))

\* The name is line[p2..p3 - 1].
MatchClassName(line, p2, p3) ==
    IF p3 <= Len(line) /\ line[p3] = "("
    THEN MatchClassBases(line, p2, p3, IndexFrom(line, <<")">>, p3 + 1))
    ELSE MatchClassColon(line, SkipSpace(line, p3), SubSeq(line, p2, p3 - 1), Undefined)

\* \s+([A-Za-z_]\w*) from p1 on, p2 being the end of the white space.
MatchClassWord(line, p1, p2) ==
    IF p2 = p1 THEN NoMatch
    ELSE IF p2 > Len(line) \/ line[p2] \notin IdentStartChars THEN NoMatch
    ELSE MatchClassName(line, p2, SkipWhile(line, p2, WordChars))

MatchClassAt(line, p0) ==
    IF ~HasAt(line, p0, <<"c", "l", "a", "s", "s">>) THEN NoMatch
    ELSE MatchClassWord(line, p0 + 5, SkipSpace(line, p0 + 5))

\* The match of /^(\t|\s)*class\s+([A-Za-z_]\w*)(?:\(([^)]*)\))?\s*:/ on a line:
\* name is group 2, bases group 3 (Undefined when the group did not take part).
MatchClass(line) == MatchClassAt(line, SkipSpace(line, 1))

\* ->\s*([^:]+)\s*: with "->" at p5, the first ":" after it at colon (0: none)
\* and the end of the white space after "->" at h0.  [^:]+ needs one
\* character: \s* gives its last one back.
MatchDefHint(line, p5, colon, h0) ==
    IF colon = 0 \/ colon = p5 + 2 THEN NoMatch
    ELSE [ok |-> TRUE,
          hint |-> SubSeq(line, IF h0 >= colon THEN colon - 1 ELSE h0, colon - 1)]

MatchDefArrow(line, p5) ==
    IF p5 <= Len(line) /\ line[p5] = ":" THEN [ok |-> TRUE, hint |-> Undefined]
    ELSE IF HasAt(line, p5, <<"-", ">">>)
    THEN MatchDefHint(line, p5, IndexFrom(line, <<":">>, p5 + 2), SkipSpace(line, p5 + 2))
    ELSE NoMatch

\* The part of the def pattern after the closing parenthesis at position close:
\* \s*(?:->\s*([^:]+))?\s*:  (hint: group 5, Undefined when it did not take part).
MatchDefTail(line, close) == MatchDefArrow(line, SkipSpace(line, close + 1))

MatchDefResult(line, async, p2, p3, p4, close, tail) ==
    IF ~tail.ok THEN NoMatch
    ELSE [ok |-> TRUE, isAsync |-> async, name |-> SubSeq(line, p2, p3 - 1),
          params |-> SubSeq(line, p4 + 1, close - 1), hint |-> tail.hint]

\* \(([^)]*)\) with "(" at p4 and the first ")" after it at close (0: none).
MatchDefParams(line, async, p2, p3, p4, close) ==
    IF close = 0 THEN NoMatch
    ELSE MatchDefResult(line, async, p2, p3, p4, close, MatchDefTail(line, close))

\* The name is line[p2..p3 - 1]; p4 is the end of the white space after it.
MatchDefName(line, async, p2, p3, p4) ==
    IF p4 > Len(line) \/ line[p4] # "(" THEN NoMatch
    ELSE MatchDefParams(line, async, p2, p3, p4, IndexFrom(line, <<")">>, p4 + 1))

MatchDefNameEnd(line, async, p2, p3) ==
    MatchDefName(line, async, p2, p3, SkipSpace(line, p3))

\* \s+([A-Za-z_]\w*) from p1 on, p2 being the end of the white space.
MatchDefWord(line, async, p1, p2) ==
    IF p2 = p1 THEN NoMatch
    ELSE IF p2 > Len(line) \/ line[p2] \notin IdentStartChars THEN NoMatch
    ELSE MatchDefNameEnd(line, async, p2, SkipWhile(line, p2, WordChars))

MatchDefAt(line, async, d0) ==
    IF ~HasAt(line, d0, <<"d", "e", "f">>) THEN NoMatch
    ELSE MatchDefWord(line, async, d0 + 3, SkipSpace(line, d0 + 3))

\* (async\s+)? at p0, a0 being the end of the white space after the word.
MatchDefAsync(line, p0, a0) ==
    IF /\ HasAt(line, p0, <<"a", "s", "y", "n", "c">>)
       /\ a0 > p0 + 5
       /\ HasAt(line, a0, <<"d", "e", "f">>)
    THEN MatchDefAt(line, TRUE, a0)
    ELSE MatchDefAt(line, FALSE, p0)

MatchDefFrom(line, p0) == MatchDefAsync(line, p0, SkipSpace(line, p0 + 5))

\* The match of
\* /^(\t|\s)*(async\s+)?def\s+([A-Za-z_]\w*)\s*\(([^)]*)\)\s*(?:->\s*([^:]+))?\s*:/
MatchDef(line) == MatchDefFrom(line, SkipSpace(line, 1))

RECURSIVE findBlockEndFromCodeOnly(_, _, _, _)
\* A block end that stays at the last code line: blank and comment lines are
\* passed over without becoming part of the block.
findBlockEndFromCodeOnly(lines, i, end, defIndentLen) ==
    IF i >= Len(lines) THEN end
    ELSE IF IsBlankOrComment(LineAt(lines, i))
         THEN findBlockEndFromCodeOnly(lines, i + 1, end, defIndentLen)
    ELSE IF getIndentLen(LineAt(lines, i)) <= defIndentLen THEN end
    ELSE findBlockEndFromCodeOnly(lines, i + 1, i, defIndentLen)

RECURSIVE findBlockEndFrom(_, _, _, _)
\* The loop of findBlockEnd from index i on, with the current value of end.
findBlockEndFrom(lines, i, end, defIndentLen) ==
    IF i >= Len(lines) THEN end
    ELSE IF IsBlankOrComment(LineAt(lines, i))
         THEN findBlockEndFrom(lines, i + 1, i, defIndentLen)
    ELSE IF getIndentLen(LineAt(lines, i)) <= defIndentLen THEN end
    ELSE findBlockEndFrom(lines, i + 1, i, defIndentLen)

findBlockEnd(lines, startIdx, defIndentLen) ==
    findBlockEndFrom(lines, startIdx + 1, startIdx, defIndentLen)

RECURSIVE JoinWith(_, _)
\* parts.join(sep)
JoinWith(parts, sep) ==
    IF parts = <<>> THEN <<>>
    ELSE IF Len(parts) = 1 THEN parts[1]
    ELSE parts[1] \o sep \o JoinWith(Tail(parts), sep)

sliceLines(lines, startIdx, endIdx) ==
    JoinWith(SubSeq(lines, Max(0, startIdx) + 1, Min(Len(lines) - 1, endIdx) + 1), <<"\n">>)

TripleQuotes == { <<"\"", "\"", "\"">>, <<"'", "'", "'">> }

\* ("""|''') after a prefix of k characters.
MatchTripleAfter(trimmed, k) ==
    IF k <= 2 /\ \E q \in TripleQuotes : HasAt(trimmed, k + 1, q)
    THEN [ok |-> TRUE, len |-> k + 3,
          quote |-> CHOOSE q \in TripleQuotes : HasAt(trimmed, k + 1, q)]
    ELSE NoMatch

\* The match of /^[ruRU]{0,2}("""|''')/ on a trimmed line: len is the length
\* of the match and quote is group 1.
MatchTriple(trimmed) ==
    MatchTripleAfter(trimmed, SkipWhile(trimmed, 1, {"r", "u", "R", "U"}) - 1)

RECURSIVE captureFrom(_, _, _, _)
\* One turn of the loop of captureMultilineString: pos is the place of the
\* quote in line i (0: none).
captureAt(lines, i, quote, value, pos) ==
    IF pos > 0
    THEN [value |-> Trim(value \o SubSeq(LineAt(lines, i), 1, pos - 1)), endLine |-> i]
    ELSE captureFrom(lines, i + 1, quote, value \o LineAt(lines, i) \o <<"\n">>)

\* The loop of captureMultilineString from index i on.
captureFrom(lines, i, quote, value) ==
    IF i >= Len(lines) THEN [value |-> Trim(value), endLine |-> Len(lines) - 1]
    ELSE captureAt(lines, i, quote, value, IndexFrom(LineAt(lines, i), quote, 1))

captureAfter(lines, startIdx, quote, startLine, startPos) ==
    captureFrom(lines, startIdx + 1, quote,
                SubSeq(startLine, startPos + Len(quote), Len(startLine)) \o <<"\n">>)

captureMultilineString(lines, startIdx, quote) ==
    captureAfter(lines, startIdx, quote, LineAt(lines, startIdx),
                 IndexFrom(LineAt(lines, startIdx), quote, 1))

docstringCaptured(cap) == [docstring |-> cap.value, firstBodyLine |-> cap.endLine + 1]

\* rest is the line after the opening quotes; close is the place of the
\* closing quotes in it (0: none).
docstringClosed(lines, i, quote, rest, close) ==
    IF close > 0
    THEN [docstring |-> Trim(SubSeq(rest, 1, close - 1)), firstBodyLine |-> i + 1]
    ELSE docstringCaptured(captureMultilineString(lines, i, quote))

docstringRest(lines, i, quote, rest) ==
    docstringClosed(lines, i, quote, rest, IndexFrom(rest, quote, 1))

docstringOpened(lines, i, trimmed, triple) ==
    IF ~triple.ok THEN [docstring |-> Undefined, firstBodyLine |-> i]
    ELSE docstringRest(lines, i, triple.quote,
                       SubSeq(trimmed, triple.len + 1, Len(trimmed)))

\* The first line of the body that is neither blank nor a comment.
docstringAt(lines, i, trimmed) == docstringOpened(lines, i, trimmed, MatchTriple(trimmed))

RECURSIVE docstringFrom(_, _, _, _)
\* The loop of extractDocstringIfFirst from index i on.
docstringFrom(lines, i, endIdx, defIndentLen) ==
    IF i > endIdx
    THEN [docstring |-> Undefined, firstBodyLine |-> Min(endIdx + 1, Len(lines) - 1)]
    ELSE IF IsBlankOrComment(LineAt(lines, i))
         THEN docstringFrom(lines, i + 1, endIdx, defIndentLen)
    ELSE IF getIndentLen(LineAt(lines, i)) <= defIndentLen
         THEN [docstring |-> Undefined, firstBodyLine |-> i]
    ELSE docstringAt(lines, i, Trim(LineAt(lines, i)))

extractDocstringIfFirst(lines, startIdx, endIdx, defIndentLen, includeDocstrings) ==
    IF ~includeDocstrings
    THEN [docstring |-> Undefined, firstBodyLine |-> startIdx + 1]
    ELSE docstringFrom(lines, startIdx + 1, endIdx, defIndentLen)

splitParams(paramsRaw) == SplitTrimmed(Trim(paramsRaw))

KEYWORD_CALL_DENYLIST ==
    { <<"i", "f">>, <<"f", "o", "r">>, <<"w", "h", "i", "l", "e">>, <<"w", "i", "t", "h">>,
      <<"r", "e", "t", "u", "r", "n">>, <<"y", "i", "e", "l", "d">>, <<"r", "a", "i", "s", "e">>,
      <<"e", "x", "c", "e", "p", "t">>, <<"c", "l", "a", "s", "s">>, <<"d", "e", "f">>,
      <<"a", "w", "a", "i", "t">>, <<"l", "a", "m", "b", "d", "a">>, <<"t", "r", "y">>,
      <<"a", "s", "s", "e", "r", "t">>, <<"d", "e", "l">>, <<"g", "l", "o", "b", "a", "l">>,
      <<"n", "o", "n", "l", "o", "c", "a", "l">>, <<"p", "a", "s", "s">>,
      <<"b", "r", "e", "a", "k">>, <<"c", "o", "n", "t", "i", "n", "u", "e">> }

\* The first position from p on where a name can start (Len(line) + 1: none).
FirstIdentStart(line, p) ==
    Least({i \in p..Len(line) : line[i] \in IdentStartChars} \cup {Len(line) + 1})

RECURSIVE callsInLineFirstSegment(_, _, _)
firstSegmentToken(line, p, i, q, base) ==
    IF q > Len(line) \/ line[q] # "(" THEN callsInLineFirstSegment(line, p + 1, i)
    ELSE IF base \in KEYWORD_CALL_DENYLIST THEN callsInLineFirstSegment(line, q + 1, i)
    ELSE <<[name |-> base, line |-> i + 1, column |-> p, qualified |-> base]>>
         \o callsInLineFirstSegment(line, q + 1, i)

firstSegmentName(line, p, i, e) ==
    firstSegmentToken(line, p, i, SkipSpace(line, e), Split(SubSeq(line, p, e - 1), ".")[1])

\* Call sites named by the first segment of the dotted token only.
callsInLineFirstSegment(line, p, i) ==
    IF p > Len(line) THEN <<>>
    ELSE IF line[p] \notin IdentStartChars
         THEN callsInLineFirstSegment(line, FirstIdentStart(line, p), i)
    ELSE firstSegmentName(line, p, i, SkipWhile(line, p + 1, WordChars \cup {"."}))

RECURSIVE callsInLine(_, _, _)
\* The token name starts at p and the white space after it ends at q; base is
\* its first segment.
callsInLineToken(line, p, i, q, name, base) ==
    IF q > Len(line) \/ line[q] # "(" THEN callsInLine(line, p + 1, i)
    ELSE IF base \in KEYWORD_CALL_DENYLIST THEN callsInLine(line, q + 1, i)
    ELSE <<[name |-> name, line |-> i + 1, column |-> p, qualified |-> name]>>
         \o callsInLine(line, q + 1, i)

callsInLineName(line, p, i, e) ==
    callsInLineToken(line, p, i, SkipSpace(line, e), SubSeq(line, p, e - 1),
                     Split(SubSeq(line, p, e - 1), ".")[1])

\* The matches of /([A-Za-z_][\w\.]*)\s*\(/g in line from position p on, the
\* ones whose first segment is a keyword left out; i is the line index.
callsInLine(line, p, i) ==
    IF p > Len(line) THEN <<>>
    ELSE IF line[p] \notin IdentStartChars
         THEN callsInLine(line, FirstIdentStart(line, p), i)
    ELSE callsInLineName(line, p, i, SkipWhile(line, p + 1, WordChars \cup {"."}))

RECURSIVE extractCalls(_, _, _)
extractCalls(lines, startIdx, endIdx) ==
    IF startIdx > endIdx \/ startIdx < 0 \/ startIdx >= Len(lines) THEN <<>>
    ELSE (IF IsBlankOrComment(LineAt(lines, startIdx)) THEN <<>>
          ELSE callsInLine(LineAt(lines, startIdx), 1, startIdx))
         \o extractCalls(lines, startIdx + 1, endIdx)

RECURSIVE decoratorRunEnd(_, _, _)
\* The index the decorator loops stop at: the first index from k on, up to
\* last, whose trimmed line neither starts with "@" nor is empty (last + 1:
\* none).
decoratorRunEnd(lines, k, last) ==
    IF k > last THEN k
    ELSE IF StartsWith(Trim(LineAt(lines, k)), <<"@">>) \/ Trim(LineAt(lines, k)) = <<>>
         THEN decoratorRunEnd(lines, k + 1, last)
    ELSE k

\* The lines from..to - 1 trimmed, the ones that start with "@" kept.
decoratorsIn(lines, from, to) ==
    SelectSeq([x \in 1..(to - from) |-> Trim(LineAt(lines, from + x - 1))],
              LAMBDA t : StartsWith(t, <<"@">>))

\* (group ?? "").trim() || undefined
hintOf(group) ==
    IF group = Undefined \/ Trim(group) = <<>> THEN Undefined ELSE Trim(group)

\* The ParsedFunction of a def whose block ends at endIdx and whose docstring
\* scan gave doc.
parsedFunctionWith(lines, startIdx, m, decorators, endIdx, doc) ==
    [ name |-> m.name, parameters |-> splitParams(m.params),
      returnHint |-> hintOf(m.hint), isAsync |-> m.isAsync,
      isPrivate |-> StartsWith(m.name, <<"_">>), decorators |-> decorators,
      lineStart |-> startIdx + 1, lineEnd |-> endIdx + 1,
      docstring |-> doc.docstring,
      codeExcerpt |-> sliceLines(lines, startIdx, endIdx),
      calls |-> extractCalls(lines, doc.firstBodyLine, endIdx) ]

parsedFunctionBlock(lines, opts, startIdx, m, decorators, indentLen, endIdx) ==
    parsedFunctionWith(lines, startIdx, m, decorators, endIdx,
                       extractDocstringIfFirst(lines, startIdx, endIdx, indentLen,
                                               opts.includeDocstrings))

parsedFunctionIndent(lines, opts, startIdx, m, decorators, indentLen) ==
    parsedFunctionBlock(lines, opts, startIdx, m, decorators, indentLen,
                        findBlockEnd(lines, startIdx, indentLen))

\* The ParsedFunction of the def header at index startIdx matched as m, with
\* the given decorators.
parsedFunction(lines, opts, startIdx, m, decorators) ==
    parsedFunctionIndent(lines, opts, startIdx, m, decorators,
                         getIndentLen(LineAt(lines, startIdx)))

RECURSIVE methodsFromEveryDef(_, _, _, _, _)
everyDefAt(lines, opts, j, k, blockEnd, classIndentLen, mDef) ==
    IF mDef.ok /\ getIndentLen(LineAt(lines, k)) > classIndentLen
    THEN <<parsedFunction(lines, opts, k, mDef, decoratorsIn(lines, j, k))>>
         \o methodsFromEveryDef(lines, opts, k + 1, blockEnd, classIndentLen)
    ELSE methodsFromEveryDef(lines, opts, k + 1, blockEnd, classIndentLen)

everyDefFrom(lines, opts, j, k, blockEnd, classIndentLen) ==
    IF k > blockEnd THEN <<>>
    ELSE everyDefAt(lines, opts, j, k, blockEnd, classIndentLen, MatchDef(LineAt(lines, k)))

\* A loop over the class body that goes on at the line after a method's
\* header instead of the line after the method's block.
methodsFromEveryDef(lines, opts, j, blockEnd, classIndentLen) ==
    IF j > blockEnd THEN <<>>
    ELSE everyDefFrom(lines, opts, j, decoratorRunEnd(lines, j, blockEnd), blockEnd,
                      classIndentLen)

RECURSIVE methodsFrom(_, _, _, _, _)
\* methods.push(method); j = method.lineEnd
methodsAfter(lines, opts, blockEnd, classIndentLen, method) ==
    <<method>> \o methodsFrom(lines, opts, method.lineEnd, blockEnd, classIndentLen)

\* The line at index k, after the decorators from j on, matched as mDef.
methodsAtDef(lines, opts, j, k, blockEnd, classIndentLen, mDef) ==
    IF mDef.ok /\ getIndentLen(LineAt(lines, k)) > classIndentLen
    THEN methodsAfter(lines, opts, blockEnd, classIndentLen,
                      parsedFunction(lines, opts, k, mDef, decoratorsIn(lines, j, k)))
    ELSE methodsFrom(lines, opts, k + 1, blockEnd, classIndentLen)

methodsAt(lines, opts, j, k, blockEnd, classIndentLen) ==
    IF k > blockEnd THEN <<>>
    ELSE methodsAtDef(lines, opts, j, k, blockEnd, classIndentLen,
                      MatchDef(LineAt(lines, k)))

\* The loop over the class body from index j on: the methods it pushes.
methodsFrom(lines, opts, j, blockEnd, classIndentLen) ==
    IF j > blockEnd THEN <<>>
    ELSE methodsAt(lines, opts, j, decoratorRunEnd(lines, j, blockEnd), blockEnd,
                   classIndentLen)

\* The ParsedClass of a class whose block ends at blockEnd and whose docstring
\* scan gave doc.
parsedClassWith(lines, opts, i, m, decorators, classIndentLen, blockEnd, doc) ==
    [ name |-> m.name,
      baseClasses |-> SplitTrimmed(IF m.bases = Undefined THEN <<>> ELSE m.bases),
      decorators |-> decorators, docstring |-> doc.docstring,
      lineStart |-> i + 1, lineEnd |-> blockEnd + 1,
      codeExcerpt |-> sliceLines(lines, i, blockEnd),
      methods |-> methodsFrom(lines, opts, Min(blockEnd, doc.firstBodyLine), blockEnd,
                              classIndentLen) ]

parsedClassBlock(lines, opts, i, m, decorators, classIndentLen, blockEnd) ==
    parsedClassWith(lines, opts, i, m, decorators, classIndentLen, blockEnd,
                    extractDocstringIfFirst(lines, i, blockEnd, classIndentLen,
                                            opts.includeDocstrings))

parsedClassIndent(lines, opts, i, m, decorators, classIndentLen) ==
    parsedClassBlock(lines, opts, i, m, decorators, classIndentLen,
                     findBlockEnd(lines, i, classIndentLen))

\* The ParsedClass of the class header at index i matched as m.
parsedClass(lines, opts, i, m, decorators) ==
    parsedClassIndent(lines, opts, i, m, decorators, getIndentLen(LineAt(lines, i)))

\* classes.push(cls); i = cls.lineEnd
pushClass(st, cls) ==
    [i |-> cls.lineEnd, classes |-> Append(st.classes, cls), functions |-> st.functions]

\* functions.push(fn); i = fn.lineEnd
pushFunction(st, fn) ==
    [i |-> fn.lineEnd, classes |-> st.classes, functions |-> Append(st.functions, fn)]

parseTurnDef(lines, opts, st, i, mFun) ==
    IF mFun.ok
    THEN pushFunction(st, parsedFunction(lines, opts, i, mFun, decoratorsIn(lines, st.i, i)))
    ELSE [st EXCEPT !.i = i + 1]

parseTurnClass(lines, opts, st, i, mClass) ==
    IF mClass.ok
    THEN pushClass(st, parsedClass(lines, opts, i, mClass, decoratorsIn(lines, st.i, i)))
    ELSE parseTurnDef(lines, opts, st, i, MatchDef(LineAt(lines, i)))

\* i is the index after the decorators and empty lines from st.i on.
parseTurnAt(lines, opts, st, i) ==
    IF Trim(LineAt(lines, st.i)) = <<>> THEN [st EXCEPT !.i = st.i + 1]
    ELSE IF i >= Len(lines) THEN [st EXCEPT !.i = i]
    ELSE parseTurnClass(lines, opts, st, i, MatchClass(LineAt(lines, i)))

\* One turn of the loop of parseClassesAndFunctions: st is the index i and
\* the classes and functions pushed so far.
parseTurn(lines, opts, st) ==
    parseTurnAt(lines, opts, st, decoratorRunEnd(lines, st.i, Len(lines) - 1))

RECURSIVE parseLoop(_, _, _)
parseLoop(lines, opts, st) ==
    IF st.i >= Len(lines) THEN st
    ELSE parseLoop(lines, opts, parseTurn(lines, opts, st))

classesAndFunctionsOf(st) == [classes |-> st.classes, functions |-> st.functions]

parseClassesAndFunctions(lines, opts) ==
    classesAndFunctionsOf(parseLoop(lines, opts,
                                    [i |-> 0, classes |-> <<>>, functions |-> <<>>]))

\* t is [\w\.]+ up to e - 1, white space up to p1 - 1, "as" at p1, white
\* space up to p2 - 1.
importNameAt(t, e, p1, p2) ==
    IF /\ e > 1 /\ p1 > e /\ HasAt(t, p1, <<"a", "s">>) /\ p2 > p1 + 2
       /\ p2 <= Len(t) /\ SkipWhile(t, p2, WordChars) = Len(t) + 1
    THEN [name |-> SubSeq(t, 1, e - 1), alias |-> SubSeq(t, p2, Len(t))]
    ELSE [name |-> t, alias |-> Undefined]

importNameAs(t, e, p1) == importNameAt(t, e, p1, SkipSpace(t, p1 + 2))

importNameFrom(t, e) == importNameAs(t, e, SkipSpace(t, e))

\* The match of /^([\w\.]+)\s+as\s+([\w_]+)$/ on an import item.
importName(t) == importNameFrom(t, SkipWhile(t, 1, WordChars \cup {"."}))

importNamesOf(items) == [x \in 1..Len(items) |-> importName(items[x])]

\* rhs.split(",").map(trim).filter(non-empty).map(name or name-as-alias)
importNames(rhs) == importNamesOf(SplitTrimmed(rhs))

restFrom(line, p, q) ==
    IF q = p THEN Undefined
    ELSE IF q <= Len(line) THEN SubSeq(line, q, Len(line))
    ELSE IF q - p >= 2 THEN SubSeq(line, Len(line), Len(line))
    ELSE Undefined

\* The match of \s+(.+)$ from position p on: the group, Undefined if none.
\* When only white space follows, \s+ gives its last character to the group.
restAfterSpace(line, p) == restFrom(line, p, SkipSpace(line, p))

MatchFromRhs(line, p1, p2, rhs) ==
    IF rhs # Undefined
    THEN [ok |-> TRUE, module |-> SubSeq(line, p1, p2 - 1), rhs |-> rhs]
    ELSE NoMatch

MatchFromImport(line, p1, p2, p3) ==
    IF p3 > p2 /\ HasAt(line, p3, <<"i", "m", "p", "o", "r", "t">>)
    THEN MatchFromRhs(line, p1, p2, restAfterSpace(line, p3 + 6))
    ELSE NoMatch

MatchFromModule(line, p1, p2) ==
    IF p2 > p1 THEN MatchFromImport(line, p1, p2, SkipSpace(line, p2)) ELSE NoMatch

MatchFromWord(line, p0, p1) ==
    IF HasAt(line, p0, <<"f", "r", "o", "m">>) /\ p1 > p0 + 4
    THEN MatchFromModule(line, p1, SkipWhile(line, p1, WordChars \cup {"."}))
    ELSE NoMatch

MatchFromAt(line, p0) == MatchFromWord(line, p0, SkipSpace(line, p0 + 4))

\* The match of /^\s*from\s+([\w\.]+)\s+import\s+(.+)$/.
MatchFrom(line) == MatchFromAt(line, SkipSpace(line, 1))

\* Plain import statements are not recognised.
MatchImportNever(line) == NoMatch

MatchImportRhs(rhs) == IF rhs # Undefined THEN [ok |-> TRUE, rhs |-> rhs] ELSE NoMatch

MatchImportAt(line, p0) ==
    IF HasAt(line, p0, <<"i", "m", "p", "o", "r", "t">>)
    THEN MatchImportRhs(restAfterSpace(line, p0 + 6))
    ELSE NoMatch

\* The match of /^\s*import\s+(.+)$/.
MatchImport(line) == MatchImportAt(line, SkipSpace(line, 1))

fromImport(line, i, mFrom) ==
    [importType |-> "from", module |-> mFrom.module,
     names |-> importNames(mFrom.rhs), line |-> i + 1, code |-> Trim(line)]

plainImport(line, i, names) ==
    [importType |-> "import",
     module |-> IF Len(names) > 0 THEN names[1].name ELSE <<>>,
     names |-> names, line |-> i + 1, code |-> Trim(line)]

\* The import the line at index i gives, as a list of at most one element.
importsPlain(line, i, mImp) ==
    IF mImp.ok THEN <<plainImport(line, i, importNames(mImp.rhs))>> ELSE <<>>

importsOfLine(line, i, mFrom) ==
    IF mFrom.ok THEN <<fromImport(line, i, mFrom)>>
    ELSE importsPlain(line, i, MatchImport(line))

RECURSIVE parseImportsFrom(_, _)
parseImportsFrom(lines, i) ==
    IF i >= Len(lines) THEN <<>>
    ELSE IF IsBlankOrComment(LineAt(lines, i)) THEN parseImportsFrom(lines, i + 1)
    ELSE importsOfLine(LineAt(lines, i), i, MatchFrom(LineAt(lines, i)))
         \o parseImportsFrom(lines, i + 1)

parseImports(lines) == parseImportsFrom(lines, 0)

\* U+2026, one character.
Ellipsis == "..."

MaxSnippetLen == 120

trimRightMax(s) ==
    IF Len(Trim(s)) <= MaxSnippetLen THEN Trim(s)
    ELSE SubSeq(Trim(s), 1, MaxSnippetLen) \o <<Ellipsis>>

\* The name ends at e - 1, "=" is at p1 and the white space after it ends at
\* q - 1.
MatchAssignmentValue(line, e, p1, q) ==
    IF q <= Len(line) /\ line[q] # "="
    THEN [ok |-> TRUE, name |-> SubSeq(line, 1, e - 1), value |-> SubSeq(line, q, Len(line))]
    ELSE IF q > p1 + 1
    THEN [ok |-> TRUE, name |-> SubSeq(line, 1, e - 1), value |-> SubSeq(line, q - 1, Len(line))]
    ELSE NoMatch

MatchAssignmentEq(line, e, p1) ==
    IF \/ line = <<>> \/ line[1] \notin IdentStartChars
       \/ p1 > Len(line) \/ line[p1] # "="
    THEN NoMatch
    ELSE MatchAssignmentValue(line, e, p1, SkipSpace(line, p1 + 1))

MatchAssignmentName(line, e) == MatchAssignmentEq(line, e, SkipSpace(line, e))

\* The match of /^([\t ]*)([A-Za-z_]\w*)\s*=\s*([^=].*)$/ on a line without
\* indentation: name is group 2, value group 3.
MatchAssignment(line) == MatchAssignmentName(line, SkipWhile(line, 1, WordChars))

\* The variable the line at index i gives, as a list of at most one element.
variablesOfLine(line, i, m) ==
    IF getIndentLen(line) # 0 \/ IsBlankOrComment(line) \/ ~m.ok THEN <<>>
    ELSE <<[name |-> m.name, valueSnippet |-> trimRightMax(m.value), line |-> i + 1]>>

RECURSIVE parseTopLevelVariablesFrom(_, _)
parseTopLevelVariablesFrom(lines, i) ==
    IF i >= Len(lines) THEN <<>>
    ELSE variablesOfLine(LineAt(lines, i), i, MatchAssignment(LineAt(lines, i)))
         \o parseTopLevelVariablesFrom(lines, i + 1)

parseTopLevelVariables(lines) == parseTopLevelVariablesFrom(lines, 0)

\* The characters of content at the positions kept, "\r" turned into "\n".
newlinesAt(content, kept) ==
    [x \in 1..Len(kept) |-> IF content[kept[x]] = "\r" THEN "\n" ELSE content[kept[x]]]

\* content.replace(/\r\n?/g, "\n")
normalizeNewlines(content) ==
    newlinesAt(content,
               PositionsWhere(content,
                   LAMBDA i : ~(content[i] = "\n" /\ i > 1 /\ content[i - 1] = "\r")))

\* content.split("\n")
SplitLines(content) ==
    piecesBetween(content, PositionsWhere(content, LAMBDA i : content[i] = "\n"))

\* The lines parseSingleFile works on.
linesOf(content) == SplitLines(normalizeNewlines(content))

parsedModuleOf(lines, cf) ==
    [ classes |-> cf.classes, functions |-> cf.functions,
      imports |-> parseImports(lines),
      variables |-> parseTopLevelVariables(lines) ]

parseLines(lines, opts) == parsedModuleOf(lines, parseClassesAndFunctions(lines, opts))

\* What parseSingleFile extracts from a file content.
parseContent(content, opts) == parseLines(linesOf(content), opts)

(***************************************************************************)
(* Inputs.  An invocation gets the parse of a list of uploaded files.  The *)
(* file contents are the four texts below; each record is what             *)
(* parseSingleFile returns for the text (codeExcerpt, which the builder    *)
(* only copies, is abbreviated to its first line).                         *)
(***************************************************************************)

\* The parse of
\*    1  import os, x as h
\*    2  class C(B):
\*    3      def f(self):
\*    4          self.g(); self.g(); self.x.g(); self.z()
\*    5      def g(self):
\*    6          h(); C.f(); os.path.join(); u.v()
\*    7  def h():
\*    8      f(); self.f(); os()
BodySvc ==
    [ classes |-> <<
      [ name |-> <<"C">>, baseClasses |-> <<<<"B">>>>, decorators |-> <<>>,
        docstring |-> Undefined, lineStart |-> 2, lineEnd |-> 6,
        codeExcerpt |-> <<"c", "l", "a", "s", "s", " ", "C", "(", "B", ")", ":">>,
        methods |-> <<
          [ name |-> <<"f">>, parameters |-> <<<<"s", "e", "l", "f">>>>, returnHint |-> Undefined,
            isAsync |-> FALSE, isPrivate |-> FALSE, decorators |-> <<>>,
            lineStart |-> 3, lineEnd |-> 4, docstring |-> Undefined,
            codeExcerpt |-> <<"d", "e", "f", " ", "f", "(", "s", "e", "l", "f", ")", ":">>,
            calls |-> <<
                [name |-> <<"s", "e", "l", "f", ".", "g">>, line |-> 4, column |-> 9, qualified |-> <<"s", "e", "l", "f", ".", "g">>],
                [name |-> <<"s", "e", "l", "f", ".", "g">>, line |-> 4, column |-> 19, qualified |-> <<"s", "e", "l", "f", ".", "g">>],
                [name |-> <<"s", "e", "l", "f", ".", "x", ".", "g">>, line |-> 4, column |-> 29, qualified |-> <<"s", "e", "l", "f", ".", "x", ".", "g">>],
                [name |-> <<"s", "e", "l", "f", ".", "z">>, line |-> 4, column |-> 41, qualified |-> <<"s", "e", "l", "f", ".", "z">>] >> ],
          [ name |-> <<"g">>, parameters |-> <<<<"s", "e", "l", "f">>>>, returnHint |-> Undefined,
            isAsync |-> FALSE, isPrivate |-> FALSE, decorators |-> <<>>,
            lineStart |-> 5, lineEnd |-> 6, docstring |-> Undefined,
            codeExcerpt |-> <<"d", "e", "f", " ", "g", "(", "s", "e", "l", "f", ")", ":">>,
            calls |-> <<
                [name |-> <<"h">>, line |-> 6, column |-> 9, qualified |-> <<"h">>],
                [name |-> <<"C", ".", "f">>, line |-> 6, column |-> 14, qualified |-> <<"C", ".", "f">>],
                [name |-> <<"o", "s", ".", "p", "a", "t", "h", ".", "j", "o", "i", "n">>, line |-> 6, column |-> 21, qualified |-> <<"o", "s", ".", "p", "a", "t", "h", ".", "j", "o", "i", "n">>],
                [name |-> <<"u", ".", "v">>, line |-> 6, column |-> 37, qualified |-> <<"u", ".", "v">>] >> ] >> ] >>,
      functions |-> <<
      [ name |-> <<"h">>, parameters |-> <<>>, returnHint |-> Undefined,
        isAsync |-> FALSE, isPrivate |-> FALSE, decorators |-> <<>>,
        lineStart |-> 7, lineEnd |-> 8, docstring |-> Undefined,
        codeExcerpt |-> <<"d", "e", "f", " ", "h", "(", ")", ":">>,
        calls |-> <<
            [name |-> <<"f">>, line |-> 8, column |-> 5, qualified |-> <<"f">>],
            [name |-> <<"s", "e", "l", "f", ".", "f">>, line |-> 8, column |-> 10, qualified |-> <<"s", "e", "l", "f", ".", "f">>],
            [name |-> <<"o", "s">>, line |-> 8, column |-> 20, qualified |-> <<"o", "s">>] >> ] >>,
      imports |-> <<
      [ importType |-> "import", module |-> <<"o", "s">>, line |-> 1,
        names |-> <<[name |-> <<"o", "s">>, alias |-> Undefined], [name |-> <<"x">>, alias |-> <<"h">>]>> ] >>,
      variables |-> <<>> ]

\* The parse of
\*    1  class B:
\*    2      """base"""
\*    3      def g(self):
\*    4          g(); w()
\*    5      def w(self):
\*    6          pass
\*    7  def g():
\*    8      B.w(); B.q()
\*    9  V = 1
BodyBase1 ==
    [ classes |-> <<
      [ name |-> <<"B">>, baseClasses |-> <<>>, decorators |-> <<>>,
        docstring |-> <<"b", "a", "s", "e">>, lineStart |-> 1, lineEnd |-> 6,
        codeExcerpt |-> <<"c", "l", "a", "s", "s", " ", "B", ":">>,
        methods |-> <<
          [ name |-> <<"g">>, parameters |-> <<<<"s", "e", "l", "f">>>>, returnHint |-> Undefined,
            isAsync |-> FALSE, isPrivate |-> FALSE, decorators |-> <<>>,
            lineStart |-> 3, lineEnd |-> 4, docstring |-> Undefined,
            codeExcerpt |-> <<"d", "e", "f", " ", "g", "(", "s", "e", "l", "f", ")", ":">>,
            calls |-> <<
                [name |-> <<"g">>, line |-> 4, column |-> 9, qualified |-> <<"g">>],
                [name |-> <<"w">>, line |-> 4, column |-> 14, qualified |-> <<"w">>] >> ],
          [ name |-> <<"w">>, parameters |-> <<<<"s", "e", "l", "f">>>>, returnHint |-> Undefined,
            isAsync |-> FALSE, isPrivate |-> FALSE, decorators |-> <<>>,
            lineStart |-> 5, lineEnd |-> 6, docstring |-> Undefined,
            codeExcerpt |-> <<"d", "e", "f", " ", "w", "(", "s", "e", "l", "f", ")", ":">>,
            calls |-> <<>> ] >> ] >>,
      functions |-> <<
      [ name |-> <<"g">>, parameters |-> <<>>, returnHint |-> Undefined,
        isAsync |-> FALSE, isPrivate |-> FALSE, decorators |-> <<>>,
        lineStart |-> 7, lineEnd |-> 8, docstring |-> Undefined,
        codeExcerpt |-> <<"d", "e", "f", " ", "g", "(", ")", ":">>,
        calls |-> <<
            [name |-> <<"B", ".", "w">>, line |-> 8, column |-> 5, qualified |-> <<"B", ".", "w">>],
            [name |-> <<"B", ".", "q">>, line |-> 8, column |-> 12, qualified |-> <<"B", ".", "q">>] >> ] >>,
      imports |-> <<>>,
      variables |-> <<
      [name |-> <<"V">>, valueSnippet |-> <<"1">>, line |-> 9] >> ]

\* The parse of
\*    1  from os import path as g, sep
\*    2  class B(A|B):
\*    3      def g(self, a):
\*    4          g.q(); sep(); g()
\*    5  import os.path
BodyBase2 ==
    [ classes |-> <<
      [ name |-> <<"B">>, baseClasses |-> <<<<"A", "|", "B">>>>, decorators |-> <<>>,
        docstring |-> Undefined, lineStart |-> 2, lineEnd |-> 4,
        codeExcerpt |-> <<"c", "l", "a", "s", "s", " ", "B", "(", "A", "|", "B", ")", ":">>,
        methods |-> <<
          [ name |-> <<"g">>, parameters |-> <<<<"s", "e", "l", "f">>, <<"a">>>>, returnHint |-> Undefined,
            isAsync |-> FALSE, isPrivate |-> FALSE, decorators |-> <<>>,
            lineStart |-> 3, lineEnd |-> 4, docstring |-> Undefined,
            codeExcerpt |-> <<"d", "e", "f", " ", "g", "(", "s", "e", "l", "f", ",", " ", "a", ")", ":">>,
            calls |-> <<
                [name |-> <<"g", ".", "q">>, line |-> 4, column |-> 9, qualified |-> <<"g", ".", "q">>],
                [name |-> <<"s", "e", "p">>, line |-> 4, column |-> 16, qualified |-> <<"s", "e", "p">>],
                [name |-> <<"g">>, line |-> 4, column |-> 23, qualified |-> <<"g">>] >> ] >> ] >>,
      functions |-> <<>>,
      imports |-> <<
      [ importType |-> "from", module |-> <<"o", "s">>, line |-> 1,
        names |-> <<[name |-> <<"p", "a", "t", "h">>, alias |-> <<"g">>], [name |-> <<"s", "e", "p">>, alias |-> Undefined]>> ],
      [ importType |-> "import", module |-> <<"o", "s", ".", "p", "a", "t", "h">>, line |-> 5,
        names |-> <<[name |-> <<"o", "s", ".", "p", "a", "t", "h">>, alias |-> Undefined]>> ] >>,
      variables |-> <<>> ]

\* The parse of
\*    1  import sys
\*    2  class C:
\*    3      def f(self):
\*    4          self.y()
\*    5      def f(self, v):
\*    6          f(); k()
\*    7  class C(B):
\*    8      def y(self):
\*    9          self.f(); C.f()
\*   10  def k():
\*   11      k()
\*   12  def k():
\*   13      pass
BodyDup ==
    [ classes |-> <<
      [ name |-> <<"C">>, baseClasses |-> <<>>, decorators |-> <<>>,
        docstring |-> Undefined, lineStart |-> 2, lineEnd |-> 6,
        codeExcerpt |-> <<"c", "l", "a", "s", "s", " ", "C", ":">>,
        methods |-> <<
          [ name |-> <<"f">>, parameters |-> <<<<"s", "e", "l", "f">>>>, returnHint |-> Undefined,
            isAsync |-> FALSE, isPrivate |-> FALSE, decorators |-> <<>>,
            lineStart |-> 3, lineEnd |-> 4, docstring |-> Undefined,
            codeExcerpt |-> <<"d", "e", "f", " ", "f", "(", "s", "e", "l", "f", ")", ":">>,
            calls |-> <<
                [name |-> <<"s", "e", "l", "f", ".", "y">>, line |-> 4, column |-> 9, qualified |-> <<"s", "e", "l", "f", ".", "y">>] >> ],
          [ name |-> <<"f">>, parameters |-> <<<<"s", "e", "l", "f">>, <<"v">>>>, returnHint |-> Undefined,
            isAsync |-> FALSE, isPrivate |-> FALSE, decorators |-> <<>>,
            lineStart |-> 5, lineEnd |-> 6, docstring |-> Undefined,
            codeExcerpt |-> <<"d", "e", "f", " ", "f", "(", "s", "e", "l", "f", ",", " ", "v", ")", ":">>,
            calls |-> <<
                [name |-> <<"f">>, line |-> 6, column |-> 9, qualified |-> <<"f">>],
                [name |-> <<"k">>, line |-> 6, column |-> 14, qualified |-> <<"k">>] >> ] >> ],
      [ name |-> <<"C">>, baseClasses |-> <<<<"B">>>>, decorators |-> <<>>,
        docstring |-> Undefined, lineStart |-> 7, lineEnd |-> 9,
        codeExcerpt |-> <<"c", "l", "a", "s", "s", " ", "C", "(", "B", ")", ":">>,
        methods |-> <<
          [ name |-> <<"y">>, parameters |-> <<<<"s", "e", "l", "f">>>>, returnHint |-> Undefined,
            isAsync |-> FALSE, isPrivate |-> FALSE, decorators |-> <<>>,
            lineStart |-> 8, lineEnd |-> 9, docstring |-> Undefined,
            codeExcerpt |-> <<"d", "e", "f", " ", "y", "(", "s", "e", "l", "f", ")", ":">>,
            calls |-> <<
                [name |-> <<"s", "e", "l", "f", ".", "f">>, line |-> 9, column |-> 9, qualified |-> <<"s", "e", "l", "f", ".", "f">>],
                [name |-> <<"C", ".", "f">>, line |-> 9, column |-> 19, qualified |-> <<"C", ".", "f">>] >> ] >> ] >>,
      functions |-> <<
      [ name |-> <<"k">>, parameters |-> <<>>, returnHint |-> Undefined,
        isAsync |-> FALSE, isPrivate |-> FALSE, decorators |-> <<>>,
        lineStart |-> 10, lineEnd |-> 11, docstring |-> Undefined,
        codeExcerpt |-> <<"d", "e", "f", " ", "k", "(", ")", ":">>,
        calls |-> <<
            [name |-> <<"k">>, line |-> 11, column |-> 5, qualified |-> <<"k">>] >> ],
      [ name |-> <<"k">>, parameters |-> <<>>, returnHint |-> Undefined,
        isAsync |-> FALSE, isPrivate |-> FALSE, decorators |-> <<>>,
        lineStart |-> 12, lineEnd |-> 13, docstring |-> Undefined,
        codeExcerpt |-> <<"d", "e", "f", " ", "k", "(", ")", ":">>,
        calls |-> <<>> ] >>,
      imports |-> <<
      [ importType |-> "import", module |-> <<"s", "y", "s">>, line |-> 1,
        names |-> <<[name |-> <<"s", "y", "s">>, alias |-> Undefined]>> ] >>,
      variables |-> <<>> ]


\* The lines of the concrete scenario sample.py.
SampleLines ==
    <<
      \* class UserService:
      <<"c", "l", "a", "s", "s", " ", "U", "s", "e", "r", "S", "e", "r", "v", "i", "c", "e", ":">>,
      \*     def get_user(self, user_id):
      <<" ", " ", " ", " ", "d", "e", "f", " ", "g", "e", "t", "_", "u", "s", "e", "r", "(", "s", "e", "l", "f", ",", " ", "u", "s", "e", "r", "_", "i", "d", ")", ":">>,
      \*         return self._fetch(user_id)
      <<" ", " ", " ", " ", " ", " ", " ", " ", "r", "e", "t", "u", "r", "n", " ", "s", "e", "l", "f", ".", "_", "f", "e", "t", "c", "h", "(", "u", "s", "e", "r", "_", "i", "d", ")">>,
      \*     def _fetch(self, id):
      <<" ", " ", " ", " ", "d", "e", "f", " ", "_", "f", "e", "t", "c", "h", "(", "s", "e", "l", "f", ",", " ", "i", "d", ")", ":">>,
      \*         return {"id": id}
      <<" ", " ", " ", " ", " ", " ", " ", " ", "r", "e", "t", "u", "r", "n", " ", "{", "\"", "i", "d", "\"", ":", " ", "i", "d", "}">>
    >>

\* The lines of the example of the Requirements document (Phase 2).
RequirementsLines ==
    <<
      \* from typing import List
      <<"f", "r", "o", "m", " ", "t", "y", "p", "i", "n", "g", " ", "i", "m", "p", "o", "r", "t", " ", "L", "i", "s", "t">>,
      \* import requests
      <<"i", "m", "p", "o", "r", "t", " ", "r", "e", "q", "u", "e", "s", "t", "s">>,
      \* (empty)
      <<>>,
      \* class UserService:
      <<"c", "l", "a", "s", "s", " ", "U", "s", "e", "r", "S", "e", "r", "v", "i", "c", "e", ":">>,
      \*     def get_users(self) -> List[dict]:
      <<" ", " ", " ", " ", "d", "e", "f", " ", "g", "e", "t", "_", "u", "s", "e", "r", "s", "(", "s", "e", "l", "f", ")", " ", "-", ">", " ", "L", "i", "s", "t", "[", "d", "i", "c", "t", "]", ":">>,
      \*         return self._fetch_data("/users")
      <<" ", " ", " ", " ", " ", " ", " ", " ", "r", "e", "t", "u", "r", "n", " ", "s", "e", "l", "f", ".", "_", "f", "e", "t", "c", "h", "_", "d", "a", "t", "a", "(", "\"", "/", "u", "s", "e", "r", "s", "\"", ")">>,
      \* (4 spaces)
      <<" ", " ", " ", " ">>,
      \*     def _fetch_data(self, endpoint: str):
      <<" ", " ", " ", " ", "d", "e", "f", " ", "_", "f", "e", "t", "c", "h", "_", "d", "a", "t", "a", "(", "s", "e", "l", "f", ",", " ", "e", "n", "d", "p", "o", "i", "n", "t", ":", " ", "s", "t", "r", ")", ":">>,
      \*         return requests.get(endpoint).json()
      <<" ", " ", " ", " ", " ", " ", " ", " ", "r", "e", "t", "u", "r", "n", " ", "r", "e", "q", "u", "e", "s", "t", "s", ".", "g", "e", "t", "(", "e", "n", "d", "p", "o", "i", "n", "t", ")", ".", "j", "s", "o", "n", "(", ")">>
    >>

\* The lines of a file whose only def is under an if.
GuardedLines ==
    <<
      \* if x:
      <<"i", "f", " ", "x", ":">>,
      \*   def n():
      <<" ", " ", "d", "e", "f", " ", "n", "(", ")", ":">>,
      \*     g()
      <<" ", " ", " ", " ", "g", "(", ")">>
    >>

\* The options the route gives the parser when the request names none.
DefaultParseOptions == [includeDocstrings |-> TRUE]

\* What the parser extracts from the documented examples.
BodySample == parseContent(JoinWith(SampleLines, <<"\n">>), DefaultParseOptions)

BodyRequirements ==
    parseContent(JoinWith(RequirementsLines, <<"\n">>), DefaultParseOptions)

BodyGuarded == parseContent(JoinWith(GuardedLines, <<"\n">>), DefaultParseOptions)

\* Contents that a request body can carry besides the examples: a comment
\* character, white space only, the Guarded text between blank lines, and
\* (as Big) a comment line half as long as the total the endpoint allows,
\* whose characters are not written out.
HashText == <<"#">>

BlankText == <<" ", "\n", "\t">>

PaddedText == <<"\n", " ">> \o JoinWith(GuardedLines, <<"\n">>) \o <<" ", "\n">>

BodyHash == parseContent(HashText, DefaultParseOptions)

BodyBlank == parseContent(BlankText, DefaultParseOptions)

BodyPadded == parseContent(PaddedText, DefaultParseOptions)

\* The file contents, named; ParseOf is the classes, functions, imports and
\* variables that parseSingleFile extracts from the content.
Contents ==
    { "Svc", "Base1", "Base2", "Dup", "Sample", "Requirements", "Guarded",
      "Hash", "Blank", "Padded", "Big", "Empty" }

ParseOf(content) ==
    CASE content = "Svc"   -> BodySvc
      [] content = "Base1" -> BodyBase1
      [] content = "Base2" -> BodyBase2
      [] content = "Dup"   -> BodyDup
      [] content = "Sample" -> BodySample
      [] content = "Requirements" -> BodyRequirements
      [] content = "Guarded" -> BodyGuarded
      [] content = "Hash" -> BodyHash
      [] content = "Blank" -> BodyBlank
      [] content = "Padded" -> BodyPadded
      [] content = "Big" -> BodyHash

\* File names and optional paths: two files named m.py (one with a path, one
\* with the empty path), n.py and a|b.py.
NameM  == <<"m", ".", "p", "y">>
NameN  == <<"n", ".", "p", "y">>
NameAB == <<"a", "|", "b", ".", "p", "y">>
PathA  == <<"a", "/", "m", ".", "p", "y">>

\* UploadedFile: name, optional path, content.
UploadedFile(name, path, content) == [name |-> name, path |-> path, content |-> content]

UploadedFiles ==
    { UploadedFile(NameM, PathA, "Base1"),
      UploadedFile(NameM, PathA, "Svc"),
      UploadedFile(NameM, <<>>, "Base2"),
      UploadedFile(NameM, <<>>, "Dup"),
      UploadedFile(NameN, Undefined, "Svc"),
      UploadedFile(NameN, Undefined, "Base1"),
      UploadedFile(NameAB, Undefined, "Svc") }

\* filename.lastIndexOf of "/" or "\\" (0: not found; positions are 1-based here).
LastSlash(filename) ==
    LET hits == {i \in 1..Len(filename) : filename[i] = "/" \/ filename[i] = "\\"}
    IN  IF hits = {} THEN 0 ELSE CHOOSE i \in hits : \A j \in hits : j <= i

deriveModuleName(filename) ==
    LET base == SubSeq(filename, LastSlash(filename) + 1, Len(filename))
    IN  IF EndsWith(base, <<".", "p", "y">>) THEN SubSeq(base, 1, Len(base) - 3) ELSE base

\* The ParsedModule of one uploaded file.
parseSingleFile(file) ==
    [ filePath   |-> IF file.path = Undefined THEN file.name ELSE file.path,
      moduleName |-> deriveModuleName(file.name),
      classes    |-> ParseOf(file.content).classes,
      functions  |-> ParseOf(file.content).functions,
      imports    |-> ParseOf(file.content).imports,
      variables  |-> ParseOf(file.content).variables ]

parsePythonFiles(fs) == [i \in 1..Len(fs) |-> parseSingleFile(fs[i])]

\* Longest list of files of one invocation.
MaxFiles == 3

\* The non-empty lists of at most n elements of S.
ListsUpTo(S, n) == UNION {[1..k -> S] : k \in 1..n}

Inputs == ListsUpTo(UploadedFiles, MaxFiles)

(***************************************************************************)
(* The state machine                                                       *)
(***************************************************************************)

NoGraph == [nodes |-> <<>>, edges |-> <<>>]

\* The ParsedModule[] argument of the current invocation.
modules == parsePythonFiles(files)

\* The maps of the running invocation as one record.
Builder ==
    [ nodeById |-> nodeById, edgeWeightByKey |-> edgeWeightByKey,
      topLevelFuncByModuleAndName |-> topLevelFuncByModuleAndName,
      classByModuleAndName |-> classByModuleAndName,
      methodByModuleClassAndName |-> methodByModuleClassAndName,
      emitted |-> emitted ]

Store(b) ==
    /\ nodeById' = b.nodeById
    /\ edgeWeightByKey' = b.edgeWeightByKey
    /\ topLevelFuncByModuleAndName' = b.topLevelFuncByModuleAndName
    /\ classByModuleAndName' = b.classByModuleAndName
    /\ methodByModuleClassAndName' = b.methodByModuleClassAndName
    /\ emitted' = b.emitted

\* The fresh maps declared at the start of buildKnowledgeGraphFromParsedModules.
FreshBuilder ==
    [ nodeById |-> <<>>, edgeWeightByKey |-> <<>>,
      topLevelFuncByModuleAndName |-> <<>>, classByModuleAndName |-> <<>>,
      methodByModuleClassAndName |-> <<>>, emitted |-> <<>> ]

Init ==
    /\ files \in Inputs
    /\ pc = "prepass"
    /\ idx = 1
    /\ nodeById = <<>>
    /\ edgeWeightByKey = <<>>
    /\ topLevelFuncByModuleAndName = <<>>
    /\ classByModuleAndName = <<>>
    /\ methodByModuleClassAndName = <<>>
    /\ emitted = <<>>
    /\ graph = NoGraph
    /\ history = <<>>
    /\ firstGraph = NoGraph
    /\ ParserIdle
    /\ FrontIdle

\* A single pass: the references of a module are resolved right after its own
\* declarations, before the declarations of the later modules are seen.
PrePassResolvingAtOnce ==
    /\ pc = "prepass"
    /\ Store(RefPassModule(PrePassModule(Builder, modules[idx], idx), modules[idx], idx))
    /\ IF idx = Len(modules)
       THEN pc' = "materialize" /\ idx' = 1
       ELSE pc' = pc /\ idx' = idx + 1
    /\ UNCHANGED <<files, graph, history, firstGraph>>
    /\ UNCHANGED parserVars
    /\ UNCHANGED frontVars

\* One iteration of the pre-pass loop.
PrePass ==
    /\ pc = "prepass"
    /\ Store(PrePassModule(Builder, modules[idx], idx))
    /\ IF idx = Len(modules)
       THEN pc' = "refpass" /\ idx' = 1
       ELSE pc' = pc /\ idx' = idx + 1
    /\ UNCHANGED <<files, graph, history, firstGraph>>
    /\ UNCHANGED parserVars
    /\ UNCHANGED frontVars

\* One iteration of the reference-pass loop.
RefPass ==
    /\ pc = "refpass"
    /\ Store(RefPassModule(Builder, modules[idx], idx))
    /\ IF idx = Len(modules)
       THEN pc' = "materialize" /\ idx' = 1
       ELSE pc' = pc /\ idx' = idx + 1
    /\ UNCHANGED <<files, graph, history, firstGraph>>
    /\ UNCHANGED parserVars
    /\ UNCHANGED frontVars

\* Materialize the edges, sort nodes and edges, return.
Materialize ==
    /\ pc = "materialize"
    /\ graph' = [ nodes |-> SortById(MaterializeNodes(nodeById)),
                  edges |-> SortById(MaterializeEdges(edgeWeightByKey)) ]
    /\ pc' = "done"
    /\ history' = Append(history, files)
    /\ firstGraph' = IF history = <<>> THEN graph' ELSE firstGraph
    /\ UNCHANGED <<files, idx, nodeById, edgeWeightByKey, topLevelFuncByModuleAndName,
                   classByModuleAndName, methodByModuleClassAndName, emitted>>
    /\ UNCHANGED parserVars
    /\ UNCHANGED frontVars

Next == PrePass \/ RefPass \/ Materialize

Spec == Init /\ [][Next]_vars

(***************************************************************************)
(* Repeated invocations: after an invocation has returned, the function is *)
(* called again, with the first input or with another one.  Every call     *)
(* declares its maps afresh.                                               *)
(***************************************************************************)

\* Number of invocations in a row.
MaxRequests == 3

\* Inputs of the first invocation, and of the ones that may run in between.
RepeatInputs == ListsUpTo(UploadedFiles, 2)

Interferers ==
    {<<f>> : f \in {x \in UploadedFiles : x.content = "Dup"}}
    \cup {<<UploadedFile(NameM, PathA, "Base1"), UploadedFile(NameN, Undefined, "Svc")>>}

\* The maps mutated by an earlier call stay with that call.
NewInvocationKeepsEdges ==
    /\ pc = "done"
    /\ Len(history) < MaxRequests
    /\ files' \in {history[1]} \cup Interferers
    /\ Store([FreshBuilder EXCEPT !.edgeWeightByKey = edgeWeightByKey])
    /\ graph' = NoGraph
    /\ pc' = "prepass"
    /\ idx' = 1
    /\ UNCHANGED <<history, firstGraph>>
    /\ UNCHANGED parserVars
    /\ UNCHANGED frontVars

\* A new call of buildKnowledgeGraphFromParsedModules.
NewInvocation ==
    /\ pc = "done"
    /\ Len(history) < MaxRequests
    /\ files' \in {history[1]} \cup Interferers
    /\ Store(FreshBuilder)
    /\ graph' = NoGraph
    /\ pc' = "prepass"
    /\ idx' = 1
    /\ UNCHANGED <<history, firstGraph>>
    /\ UNCHANGED parserVars
    /\ UNCHANGED frontVars

InitRepeat ==
    /\ files \in RepeatInputs
    /\ pc = "prepass"
    /\ idx = 1
    /\ nodeById = <<>>
    /\ edgeWeightByKey = <<>>
    /\ topLevelFuncByModuleAndName = <<>>
    /\ classByModuleAndName = <<>>
    /\ methodByModuleClassAndName = <<>>
    /\ emitted = <<>>
    /\ graph = NoGraph
    /\ history = <<>>
    /\ firstGraph = NoGraph
    /\ ParserIdle
    /\ FrontIdle

NextRepeat == PrePass \/ RefPass \/ Materialize \/ NewInvocation

SpecRepeat == InitRepeat /\ [][NextRepeat]_vars

(***************************************************************************)
(* Claims                                                                  *)
(***************************************************************************)

\* C1: an invocation on the input of the first invocation returns the graph the
\* first invocation returned (same nodes and edges, same field values, same
\* order), whatever invocations ran in between: no builder state survives a call.
C1_SameInputSameGraph ==
    (pc = "done" /\ files = history[1]) => graph = firstGraph

\* C1 witness: the third invocation has returned, on the input of the first, after
\* an invocation on another input.
C1_Witness ==
    /\ pc = "done"
    /\ Len(history) = 3
    /\ files = history[1]
    /\ history[2] # files
    /\ Len(graph.edges) > 1

\* s is in strictly ascending order of id.
StrictlyAscendingById(s) == \A i \in 1..(Len(s) - 1) : StrLess(s[i].id, s[i + 1].id)

\* C2: the returned node list and edge list are in strictly ascending order of id
\* (so no id occurs twice).
C2_SortedById ==
    pc = "done" =>
        /\ StrictlyAscendingById(graph.nodes)
        /\ StrictlyAscendingById(graph.edges)

\* C2 witness: a graph was returned whose nodes and edges were not inserted in
\* ascending order of id.
C2_Witness ==
    /\ pc = "done"
    /\ \E i \in 1..(Len(nodeById) - 1) : StrLess(nodeById[i + 1].k, nodeById[i].k)
    /\ \E i \in 1..(Len(edgeWeightByKey) - 1) :
           StrLess(edgeWeightByKey[i + 1].k, edgeWeightByKey[i].k)

(***************************************************************************)
(* The places of the input that the claims speak about                     *)
(***************************************************************************)

FileIdx == 1..Len(files)

ClassIdx(fi) == 1..Len(modules[fi].classes)

\* The functions and methods of the input: [file, cls, fn], cls = 0 for a
\* top-level function.
Callers ==
    UNION {
        {[file |-> fi, cls |-> 0, fn |-> j] : j \in 1..Len(modules[fi].functions)}
        \cup UNION {
            {[file |-> fi, cls |-> ci, fn |-> j] :
                j \in 1..Len(modules[fi].classes[ci].methods)} : ci \in ClassIdx(fi)}
        : fi \in FileIdx }

FnOf(c) ==
    IF c.cls = 0 THEN modules[c.file].functions[c.fn]
    ELSE modules[c.file].classes[c.cls].methods[c.fn]

\* The node id of the function or method c itself.
OwnId(c) ==
    IF c.cls = 0 THEN FunctionNode(modules[c.file], FnOf(c)).id
    ELSE MethodNode(modules[c.file], modules[c.file].classes[c.cls], FnOf(c)).id

CallSites ==
    UNION {{Site("call", c.file, c.cls, c.fn, k) : k \in 1..Len(FnOf(c).calls)} :
           c \in Callers}

BaseSites ==
    UNION {UNION {{Site("base", fi, ci, 0, k) :
                      k \in 1..Len(modules[fi].classes[ci].baseClasses)} :
                  ci \in ClassIdx(fi)} : fi \in FileIdx}

CalleeOf(s) == FnOf([file |-> s.file, cls |-> s.cls, fn |-> s.fn]).calls[s.pos].name

\* The occurrences emitted for a place of the input.
EmittedAt(s) == {i \in 1..Len(emitted) : emitted[i].site = s}

\* The number of occurrences emitted for a triple.
Occurrences(source, relation, target) ==
    Cardinality({i \in 1..Len(emitted) :
                    /\ emitted[i].source = source
                    /\ emitted[i].relation = relation
                    /\ emitted[i].target = target})

\* The nodes that the declarations of file fi produce; the module node as it is
\* after the reference pass of that file, with the file's alias table.
ProducedNodes(fi) ==
    LET mod == modules[fi] IN
    {modNodeByIdSetMetadata(ModuleNode(mod), aliasToQualified(mod))}
    \cup {ClassNode(mod, mod.classes[ci]) : ci \in ClassIdx(fi)}
    \cup UNION {{MethodNode(mod, mod.classes[ci], mod.classes[ci].methods[j]) :
                    j \in 1..Len(mod.classes[ci].methods)} : ci \in ClassIdx(fi)}
    \cup {FunctionNode(mod, mod.functions[j]) : j \in 1..Len(mod.functions)}
    \cup {VariableNode(mod, mod.variables[j]) : j \in 1..Len(mod.variables)}

\* The files that produce a node with this id.
Producers(id) == {fi \in FileIdx : \E n \in ProducedNodes(fi) : n.id = id}

\* The first-seen node of an id that some file produces.
FirstSeen(id) ==
    LET first == CHOOSE fi \in Producers(id) : \A g \in Producers(id) : fi <= g
    IN  CHOOSE n \in ProducedNodes(first) : n.id = id

\* C3: for every id that the declarations of the input produce, the output has
\* exactly one node with that id; its label, type and line are those of the
\* first file in input order that produces it, and so is its filePath when that
\* one is not empty; every metadata key of the first-seen node (for a module node:
\* after the reference pass) keeps the first-seen value, and every other key has
\* the value that some later file gives it.
C3_FirstSeenWins ==
    pc = "done" =>
        \A fi \in FileIdx : \A p \in ProducedNodes(fi) :
            LET first == FirstSeen(p.id)
                outs  == {i \in 1..Len(graph.nodes) : graph.nodes[i].id = p.id}
            IN  /\ Cardinality(outs) = 1
                /\ \A i \in outs :
                      LET n == graph.nodes[i] IN
                      /\ n.label = first.label
                      /\ n.type = first.type
                      /\ n.line = first.line
                      /\ (first.filePath # <<>> => n.filePath = first.filePath)
                      /\ \A k \in DOMAIN first.metadata :
                            k \in DOMAIN n.metadata /\ n.metadata[k] = first.metadata[k]
                      /\ \A k \in DOMAIN n.metadata \ DOMAIN first.metadata :
                            \E g \in Producers(p.id) : \E q \in ProducedNodes(g) :
                                /\ q.id = p.id
                                /\ k \in DOMAIN q.metadata
                                /\ q.metadata[k] = n.metadata[k]

\* C4: every edge of the output has the id source|relation|target of its own
\* fields, no emitted source, relation or target contains the separator, and two
\* different emitted triples never have the same key.
C4_EdgeIdIsItsTriple ==
    pc = "done" =>
        /\ \A i \in 1..Len(graph.edges) :
              graph.edges[i].id = EdgeKey(graph.edges[i].source, graph.edges[i].relation,
                                          graph.edges[i].target)
        /\ \A i \in 1..Len(emitted) :
              /\ ~Includes(emitted[i].source, "|")
              /\ ~Includes(emitted[i].relation, "|")
              /\ ~Includes(emitted[i].target, "|")
        /\ \A i, j \in 1..Len(emitted) :
              EdgeKey(emitted[i].source, emitted[i].relation, emitted[i].target)
                = EdgeKey(emitted[j].source, emitted[j].relation, emitted[j].target)
              => /\ emitted[i].source = emitted[j].source
                 /\ emitted[i].relation = emitted[j].relation
                 /\ emitted[i].target = emitted[j].target

\* The edges of the output with these fields.
EdgesOf(source, relation, target) ==
    {i \in 1..Len(graph.edges) :
        /\ graph.edges[i].source = source
        /\ graph.edges[i].relation = relation
        /\ graph.edges[i].target = target}

\* C5: every emitted triple has exactly one edge in the output, whose weight is
\* the number of times the triple was emitted (N for N call sites of one body
\* that resolve alike), and every edge of the output is the edge of an emitted
\* triple, with that weight.
C5_WeightIsOccurrenceCount ==
    pc = "done" =>
        /\ \A i \in 1..Len(emitted) :
              LET e  == emitted[i]
                  es == EdgesOf(e.source, e.relation, e.target)
              IN  /\ Cardinality(es) = 1
                  /\ \A j \in es :
                        graph.edges[j].metadata.weight
                          = Occurrences(e.source, e.relation, e.target)
        /\ \A j \in 1..Len(graph.edges) :
              LET g == graph.edges[j] IN
              /\ g.metadata.weight = Occurrences(g.source, g.relation, g.target)
              /\ g.metadata.weight > 0

RECURSIVE SumWeights(_, _)
\* The summed weight of the edges of the sequence whose relation is in rels.
SumWeights(edges, rels) ==
    IF edges = <<>> THEN 0
    ELSE (IF edges[1].relation \in rels THEN edges[1].metadata.weight ELSE 0)
         + SumWeights(Tail(edges), rels)

NodeIds == {graph.nodes[i].id : i \in 1..Len(graph.nodes)}

\* C6: every build completes; every call site adds exactly one occurrence, to a
\* calls or a uses edge, so that the summed weight of the calls and uses edges of
\* the output is the number of call sites; every declared base-class name adds
\* exactly one occurrence to an inherits edge; the target of every uses occurrence
\* and the source of every inherits occurrence is a node of the output.
C6_NoReferenceDropped ==
    pc = "done" =>
        /\ \A s \in CallSites :
              /\ Cardinality(EmittedAt(s)) = 1
              /\ \A i \in EmittedAt(s) :
                    /\ emitted[i].relation \in {SCalls, SUses}
                    /\ emitted[i].target \in NodeIds
        /\ SumWeights(graph.edges, {SCalls, SUses}) = Cardinality(CallSites)
        /\ \A s \in BaseSites :
              /\ Cardinality(EmittedAt(s)) = 1
              /\ \A i \in EmittedAt(s) :
                    /\ emitted[i].relation = SInherits
                    /\ emitted[i].source \in NodeIds
        /\ SumWeights(graph.edges, {SInherits}) = Cardinality(BaseSites)

\* The ids of the top-level functions of that name in the module of that name.
TopLevelIds(moduleName, name) ==
    UNION {{FunctionNode(modules[g], modules[g].functions[j]).id :
               j \in {x \in 1..Len(modules[g].functions) :
                         modules[g].functions[x].name = name}} :
           g \in {x \in FileIdx : modules[x].moduleName = moduleName}}

\* The ids of the methods of that name of the class number ci of file fi.
MethodIds(fi, ci, name) ==
    IF ci = 0 THEN {}
    ELSE {MethodNode(modules[fi], modules[fi].classes[ci],
                     modules[fi].classes[ci].methods[j]).id :
             j \in {x \in 1..Len(modules[fi].classes[ci].methods) :
                       modules[fi].classes[ci].methods[x].name = name}}

\* The ids of the methods of that name of the classes of that name in the module
\* of that name.
ClassMethodIds(moduleName, className, name) ==
    UNION {UNION {MethodIds(g, ci, name) :
                    ci \in {x \in ClassIdx(g) : modules[g].classes[x].name = className}} :
           g \in {x \in FileIdx : modules[x].moduleName = moduleName}}

\* C7: a bare-name call resolves, first match wins, to a top-level function of
\* that name in the same module (calls), else to a method of that name on the
\* class of the calling method (calls), else to the placeholder of the alias's
\* qualified target (uses), else to the placeholder of the bare name (uses); in
\* the last case the output has exactly one node external:function:<name>:0 and
\* exactly one uses edge from the calling function to it.
C7_BareNamePrecedence ==
    pc = "done" =>
        \A s \in {x \in CallSites : ~Includes(CalleeOf(x), ".")} :
            LET name  == CalleeOf(s)
                mod   == modules[s.file]
                alias == aliasToQualified(mod)
                own   == OwnId([file |-> s.file, cls |-> s.cls, fn |-> s.fn])
            IN  \A i \in EmittedAt(s) :
                  LET e == emitted[i] IN
                  IF TopLevelIds(mod.moduleName, name) # {}
                  THEN e.relation = SCalls /\ e.target \in TopLevelIds(mod.moduleName, name)
                  ELSE IF MethodIds(s.file, s.cls, name) # {}
                  THEN e.relation = SCalls /\ e.target \in MethodIds(s.file, s.cls, name)
                  ELSE IF MapHas(alias, name)
                  THEN /\ e.relation = SUses
                       /\ e.target = externalFunctionNodeId(MapGet(alias, name))
                  ELSE /\ e.relation = SUses
                       /\ e.target = externalFunctionNodeId(name)
                       /\ Cardinality({n \in 1..Len(graph.nodes) :
                              graph.nodes[n].id = externalFunctionNodeId(name)}) = 1
                       /\ Cardinality(EdgesOf(own, SUses, externalFunctionNodeId(name))) = 1

\* The last dotted segment of a callee token.
LastSegment(name) == Split(name, ".")[Len(Split(name, "."))]

\* C8: for a callee self.<...>.<m> or cls.<...>.<m>, when the caller is a method
\* and its enclosing class has a method named m, a calls occurrence to such a
\* method is emitted; otherwise a uses occurrence to external:function:<m>:0.
C8_SelfCallsEnclosingClass ==
    pc = "done" =>
        \A s \in {x \in CallSites :
                     /\ Includes(CalleeOf(x), ".")
                     /\ Split(CalleeOf(x), ".")[1] \in {SSelf, SCls}} :
            LET m == LastSegment(CalleeOf(s)) IN
            /\ EmittedAt(s) # {}
            /\ \A i \in EmittedAt(s) :
                  IF MethodIds(s.file, s.cls, m) # {}
                  THEN /\ emitted[i].relation = SCalls
                       /\ emitted[i].target \in MethodIds(s.file, s.cls, m)
                  ELSE /\ emitted[i].relation = SUses
                       /\ emitted[i].target = externalFunctionNodeId(m)

\* The call sites with a dotted callee whose base is neither self nor cls.
DottedSites ==
    {x \in CallSites : /\ Includes(CalleeOf(x), ".")
                       /\ Split(CalleeOf(x), ".")[1] \notin {SSelf, SCls}}

\* C9: for a dotted callee whose base is neither self nor cls, exactly one
\* occurrence is emitted: calls to a method of the matching name when the base
\* names a class of the same module that has one; else uses to the placeholder of
\* the alias's qualified target when the base is a key of the file's alias
\* table; else uses to the placeholder of the token as written.
C9_DottedCallResolution ==
    pc = "done" =>
        \A s \in DottedSites :
            LET name  == CalleeOf(s)
                base  == Split(name, ".")[1]
                mod   == modules[s.file]
                alias == aliasToQualified(mod)
                meths == ClassMethodIds(mod.moduleName, base, LastSegment(name))
            IN  /\ Cardinality(EmittedAt(s)) = 1
                /\ \A i \in EmittedAt(s) :
                      IF meths # {}
                      THEN emitted[i].relation = SCalls /\ emitted[i].target \in meths
                      ELSE IF MapHas(alias, base)
                      THEN /\ emitted[i].relation = SUses
                           /\ emitted[i].target = externalFunctionNodeId(MapGet(alias, base))
                      ELSE /\ emitted[i].relation = SUses
                           /\ emitted[i].target = externalFunctionNodeId(name)

\* C9 witness: a build has returned in which a dotted callee resolved to a method
\* of a class of the module, `import os` with os.path.join( gave a uses occurrence
\* to the placeholder of os, and a callee with an unknown base gave a uses
\* occurrence to the placeholder of the token as written.
C9_Witness ==
    /\ pc = "done"
    /\ \E s \in DottedSites : \E i \in EmittedAt(s) : emitted[i].relation = SCalls
    /\ \E s \in DottedSites : \E i \in EmittedAt(s) :
          /\ CalleeOf(s) = <<"o", "s", ".", "p", "a", "t", "h", ".", "j", "o", "i", "n">>
          /\ emitted[i].relation = SUses
          /\ emitted[i].target = externalFunctionNodeId(<<"o", "s">>)
    /\ \E s \in DottedSites : \E i \in EmittedAt(s) :
          /\ ~MapHas(aliasToQualified(modules[s.file]), Split(CalleeOf(s), ".")[1])
          /\ emitted[i].target = externalFunctionNodeId(CalleeOf(s))

\* The ids of the classes of that name that file g declares.
ClassIdsIn(g, className) ==
    {ClassNode(modules[g], modules[g].classes[ci]).id :
        ci \in {x \in ClassIdx(g) : modules[g].classes[x].name = className}}

\* C10: for each declared base-class name of each class exactly one inherits
\* occurrence is emitted, from the base to the derived class; the base is a class
\* of that name of the same module if there is one, else the class of that name of
\* the earliest file in input order that declares one, else external:class:<name>:0.
C10_InheritsFromBase ==
    pc = "done" =>
        \A s \in BaseSites :
            LET mod     == modules[s.file]
                cls     == mod.classes[s.cls]
                base    == cls.baseClasses[s.pos]
                same    == UNION {ClassIdsIn(g, base) :
                                    g \in {x \in FileIdx :
                                              modules[x].moduleName = mod.moduleName}}
                holders == {g \in FileIdx : ClassIdsIn(g, base) # {}}
            IN  /\ Cardinality(EmittedAt(s)) = 1
                /\ \A i \in EmittedAt(s) :
                      /\ emitted[i].relation = SInherits
                      /\ emitted[i].target = ClassNode(mod, cls).id
                      /\ IF same # {} THEN emitted[i].source \in same
                         ELSE IF holders # {}
                         THEN emitted[i].source \in
                                ClassIdsIn(CHOOSE g \in holders : \A h \in holders : g <= h,
                                           base)
                         ELSE emitted[i].source = externalClassNodeId(base)

\* The files that declare a class of that name.
Declaring(className) == {g \in FileIdx : ClassIdsIn(g, className) # {}}

\* The base-class names of the input that another file of the input declares.
CrossFileBaseSites ==
    {s \in BaseSites :
        LET base == modules[s.file].classes[s.cls].baseClasses[s.pos]
        IN  Declaring(base) \ {s.file} # {}}

\* C11: a base-class name that a file of the same input declares as a class,
\* before or after the deriving file in the list, resolves to a declared class
\* node of that name: the inherits occurrence emitted for it starts at such a
\* node, and the output has no placeholder external:class:<name>:0.
C11_ResolutionSeesAllFiles ==
    pc = "done" =>
        \A s \in BaseSites :
            LET base == modules[s.file].classes[s.cls].baseClasses[s.pos] IN
            Declaring(base) # {} =>
                /\ EmittedAt(s) # {}
                /\ \A i \in EmittedAt(s) :
                      /\ emitted[i].relation = SInherits
                      /\ emitted[i].source \in UNION {ClassIdsIn(g, base) : g \in Declaring(base)}
                /\ externalClassNodeId(base) \notin NodeIds

\* C11 witness: a build has returned in which one class derives from a class
\* that only a later file declares, and another from a class that only an
\* earlier file declares.
C11_Witness ==
    /\ pc = "done"
    /\ \E s \in CrossFileBaseSites :
          \A g \in Declaring(modules[s.file].classes[s.cls].baseClasses[s.pos]) : s.file < g
    /\ \E s \in CrossFileBaseSites :
          \A g \in Declaring(modules[s.file].classes[s.cls].baseClasses[s.pos]) : g < s.file

\* The node of the output with this id is declared (not a placeholder) and has
\* this type; or it is a placeholder of this type.
IsDeclared(id, type) ==
    \E i \in 1..Len(graph.nodes) :
        /\ graph.nodes[i].id = id
        /\ graph.nodes[i].type = type
        /\ "external" \notin DOMAIN graph.nodes[i].metadata

IsPlaceholder(id, type) ==
    \E i \in 1..Len(graph.nodes) :
        /\ graph.nodes[i].id = id
        /\ graph.nodes[i].type = type
        /\ "external" \in DOMAIN graph.nodes[i].metadata
        /\ graph.nodes[i].metadata.external = TRUE

NodeWithId(id) == graph.nodes[CHOOSE i \in 1..Len(graph.nodes) : graph.nodes[i].id = id]

\* The endpoints of an edge (or of an emitted occurrence) e have the kinds that
\* the relation of e prescribes.
WellKinded(e) ==
    CASE e.relation = SDefines ->
           \/ /\ IsDeclared(e.source, SModule)
              /\ \E t \in {SClass, SFunction, SVariable} : IsDeclared(e.target, t)
              /\ NodeWithId(e.target).metadata.module
                   = NodeWithId(e.source).metadata.moduleName
           \/ /\ IsDeclared(e.source, SClass)
              /\ IsDeclared(e.target, SFunction)
              /\ "class" \in DOMAIN NodeWithId(e.target).metadata
              /\ NodeWithId(e.target).metadata.class = NodeWithId(e.source).label
              /\ NodeWithId(e.target).metadata.module = NodeWithId(e.source).metadata.module
      [] e.relation = SImports ->
           IsDeclared(e.source, SModule) /\ IsPlaceholder(e.target, SModule)
      [] e.relation = SCalls ->
           /\ IsDeclared(e.source, SFunction)
           /\ IsDeclared(e.target, SFunction)
           /\ NodeWithId(e.target).metadata.module = NodeWithId(e.source).metadata.module
      [] e.relation = SUses ->
           IsDeclared(e.source, SFunction) /\ IsPlaceholder(e.target, SFunction)
      [] e.relation = SInherits ->
           /\ IsDeclared(e.source, SClass) \/ IsPlaceholder(e.source, SClass)
           /\ IsDeclared(e.target, SClass)
      [] OTHER -> FALSE

\* C12: the relation of every edge of the output is one of defines, imports,
\* calls, inherits, uses, and the source and the target of the edge are nodes of
\* the output of the kinds that the relation prescribes.
C12_EdgeVocabulary ==
    pc = "done" => \A j \in 1..Len(graph.edges) : WellKinded(graph.edges[j])

\* The first dotted segment of a name.
FirstSegment(name) == Split(name, ".")[1]

\* The top-level module names that the import statements of file fi name.
ImportedSegments(fi) ==
    UNION {IF modules[fi].imports[i].importType = "import"
           THEN {FirstSegment(modules[fi].imports[i].names[j].name) :
                    j \in 1..Len(modules[fi].imports[i].names)}
           ELSE {FirstSegment(modules[fi].imports[i].module)} :
           i \in 1..Len(modules[fi].imports)}

\* The bindings that the import statements of file fi make, in order of the
\* statements and of the names in them: [at, key, target].
Bindings(fi) ==
    UNION {{LET imp == modules[fi].imports[i]
                n   == imp.names[j]
            IN  [at     |-> <<i, j>>,
                 key    |-> IF n.alias # Undefined THEN n.alias
                            ELSE IF imp.importType = "import" THEN FirstSegment(n.name)
                            ELSE n.name,
                 target |-> IF imp.importType = "import" THEN n.name
                            ELSE imp.module \o Dot \o n.name] :
            j \in 1..Len(modules[fi].imports[i].names)} :
           i \in 1..Len(modules[fi].imports)}

Later(x, y) == x[1] > y[1] \/ (x[1] = y[1] /\ x[2] > y[2])

\* The occurrences of imports edges emitted for file fi.
ImportsEmitted(fi) ==
    {i \in 1..Len(emitted) : emitted[i].site.kind = "imports" /\ emitted[i].site.file = fi}

\* C13: for each file, the imports occurrences emitted are one per distinct
\* top-level imported module name, from the module node of the file to
\* external:module:<segment>:0; and every key of the alias table of the file has
\* the target of the last statement that binds it: the full path for
\* `import pkg.sub` under the key pkg, M.X for `from M import X as Z` under Z.
C13_ImportsPerModuleName ==
    pc = "done" =>
        \A fi \in FileIdx :
            /\ Cardinality(ImportsEmitted(fi)) = Cardinality(ImportedSegments(fi))
            /\ \A seg \in ImportedSegments(fi) :
                  \E i \in ImportsEmitted(fi) :
                      /\ emitted[i].target = <<"e","x","t","e","r","n","a","l",":","m","o","d","u","l","e",":">>
                                               \o seg \o <<":", "0">>
                      /\ emitted[i].relation = SImports
                      /\ emitted[i].source = ModuleNode(modules[fi]).id
            /\ \A bnd \in Bindings(fi) :
                  /\ MapHas(aliasToQualified(modules[fi]), bnd.key)
                  /\ (\A o \in Bindings(fi) : o.key = bnd.key => ~Later(o.at, bnd.at))
                       => MapGet(aliasToQualified(modules[fi]), bnd.key) = bnd.target
            /\ Len(aliasToQualified(modules[fi]))
                 = Cardinality({bnd.key : bnd \in Bindings(fi)})

\* C13 witness: a build has returned for a file in which two import statements
\* name the same top-level module, one of them `import pkg.sub` without alias and
\* one `from M import X as Z`.
C13_Witness ==
    /\ pc = "done"
    /\ \E fi \in FileIdx :
          /\ \E i, j \in 1..Len(modules[fi].imports) :
                /\ i # j
                /\ modules[fi].imports[i].importType = "from"
                /\ modules[fi].imports[j].importType = "import"
                /\ FirstSegment(modules[fi].imports[i].module)
                     = FirstSegment(modules[fi].imports[j].names[1].name)
                /\ Includes(modules[fi].imports[j].names[1].name, ".")
                /\ modules[fi].imports[j].names[1].alias = Undefined
                /\ modules[fi].imports[i].names[1].alias # Undefined
          /\ Cardinality(ImportsEmitted(fi)) = 1

\* C14: every node of the output is either a declared node, whose id is
\* <module>:<type>:<label>:<line> with the module name of its metadata and a line
\* of at least 1 (a module node: label the module name, line 1; a method: label
\* <Class>.<method>), or a placeholder, whose id is external:<type>:<label>:0,
\* with metadata.external = true and without filePath; every declaration of the
\* input has its node.
C14_NodeIdComponents ==
    pc = "done" =>
        /\ \A i \in 1..Len(graph.nodes) :
              LET n == graph.nodes[i] IN
              IF "external" \in DOMAIN n.metadata
              THEN /\ n.id = <<"e","x","t","e","r","n","a","l">> \o <<":">> \o n.type
                                \o <<":">> \o n.label \o <<":", "0">>
                   /\ n.metadata.external = TRUE
                   /\ n.filePath = Undefined
                   /\ n.type \in {SModule, SClass, SFunction}
              ELSE /\ n.line >= 1
                   /\ n.id = (IF n.type = SModule THEN n.metadata.moduleName
                                                 ELSE n.metadata.module)
                             \o <<":">> \o n.type \o <<":">> \o n.label
                             \o <<":">> \o NumToStr(n.line)
                   /\ n.type \in {SModule, SClass, SFunction, SVariable}
                   /\ n.type = SModule => n.label = n.metadata.moduleName /\ n.line = 1
                   /\ (n.type = SFunction /\ "class" \in DOMAIN n.metadata)
                        => SubSeq(n.label, 1, Len(n.metadata.class) + 1)
                             = n.metadata.class \o <<".">>
                   /\ \E fi \in FileIdx : \E q \in ProducedNodes(fi) :
                         /\ q.id = n.id /\ q.label = n.label
                         /\ q.type = n.type /\ q.line = n.line
        /\ \A fi \in FileIdx : \A q \in ProducedNodes(fi) : q.id \in NodeIds

\* C14 witness: a build has returned with declared nodes of the four kinds, a
\* method among them, and placeholders of the three kinds.
C14_Witness ==
    /\ pc = "done"
    /\ \A t \in {SModule, SClass, SFunction, SVariable} : \E id \in NodeIds : IsDeclared(id, t)
    /\ \A t \in {SModule, SClass, SFunction} : \E id \in NodeIds : IsPlaceholder(id, t)
    /\ \E i \in 1..Len(graph.nodes) : "class" \in DOMAIN graph.nodes[i].metadata

(***************************************************************************)
(* The parser on its own.  The graph builder is idle; a text is given to   *)
(* the parser and the parser's functions are applied to it.                *)
(***************************************************************************)

BuilderIdle ==
    /\ files = <<>>
    /\ pc = "idle"
    /\ idx = 1
    /\ nodeById = <<>>
    /\ edgeWeightByKey = <<>>
    /\ topLevelFuncByModuleAndName = <<>>
    /\ classByModuleAndName = <<>>
    /\ methodByModuleClassAndName = <<>>
    /\ emitted = <<>>
    /\ graph = NoGraph
    /\ history = <<>>
    /\ firstGraph = NoGraph

builderVars == <<files, pc, idx, nodeById, edgeWeightByKey, topLevelFuncByModuleAndName,
                 classByModuleAndName, methodByModuleClassAndName, graph, emitted,
                 history, firstGraph>>

\* The text whose lines are the given ones.
TextOf(lineList) == JoinWith(lineList, <<"\n">>)

\* Lines for block ends: code at indentation 0, 2 and 4, an empty line, a
\* comment at indentation 0 and a line of three spaces.
BlockLines ==
    { <<"a">>, <<" ", " ", "b">>, <<" ", " ", " ", " ", "c">>,
      <<>>, <<"#", "d">>, <<" ", " ", " ">> }

MaxBlockLines == 3

MaxIndent == 4

\* A file content is not empty (the route refuses an empty content).
BlockTexts == {TextOf(l) : l \in ListsUpTo(BlockLines, MaxBlockLines)} \ {<<>>}

InitBlock ==
    /\ BuilderIdle
    /\ FrontIdle
    /\ parseInput \in [content : BlockTexts, options : {[includeDocstrings |-> TRUE]}]
    /\ parseOutput = <<>>
    /\ blockCall = <<>>

\* findBlockEnd(lines, startIdx, defIndentLen) on the lines of the text.
FindBlockEnd ==
    /\ blockCall = <<>>
    /\ \E startIdx \in 0..(Len(linesOf(parseInput.content)) - 1), defIndentLen \in 0..MaxIndent :
          blockCall' = << [ startIdx |-> startIdx, defIndentLen |-> defIndentLen,
                            result |-> findBlockEnd(linesOf(parseInput.content),
                                                    startIdx, defIndentLen) ] >>
    /\ UNCHANGED <<parseInput, parseOutput>>
    /\ UNCHANGED builderVars
    /\ UNCHANGED frontVars

NextBlock == FindBlockEnd

SpecBlock == InitBlock /\ [][NextBlock]_vars

\* The lines after startIdx that end a block opened with defIndentLen: not
\* blank, not a comment, indentation at most defIndentLen.
Dedents(lineList, startIdx, defIndentLen) ==
    { i \in (startIdx + 1)..(Len(lineList) - 1) :
        /\ Trim(LineAt(lineList, i)) # <<>>
        /\ Trim(LineAt(lineList, i))[1] # "#"
        /\ getIndentLen(LineAt(lineList, i)) <= defIndentLen }

\* C17: findBlockEnd(lines, startIdx, defIndentLen) returns d - 1 for the
\* smallest index d after startIdx of a non-blank, non-comment line indented at
\* most defIndentLen, and the last line index when there is no such line; the
\* result lies between startIdx and the last index, and the line after the
\* result, if any, is neither blank nor a comment.
C17_BlockEndIsBeforeFirstDedent ==
    \A x \in 1..Len(blockCall) :
        LET call == blockCall[x]
            ls   == linesOf(parseInput.content)
            ds   == Dedents(ls, call.startIdx, call.defIndentLen)
        IN  /\ call.result = IF ds # {} THEN Least(ds) - 1 ELSE Len(ls) - 1
            /\ call.startIdx <= call.result
            /\ call.result < Len(ls)
            /\ call.result + 1 < Len(ls) => ~IsBlankOrComment(LineAt(ls, call.result + 1))

\* A block that a dedent ends after a blank or comment line which is itself
\* indented no more than the header.
C17_Witness ==
    /\ blockCall # <<>>
    /\ LET call == blockCall[1]
           ls   == linesOf(parseInput.content)
           ds   == Dedents(ls, call.startIdx, call.defIndentLen)
       IN  /\ ds # {}
           /\ call.result = Least(ds) - 1
           /\ call.result > call.startIdx
           /\ IsBlankOrComment(LineAt(ls, call.result))
           /\ getIndentLen(LineAt(ls, call.result)) <= call.defIndentLen

\* The lines the parsed texts are made of, in the order they keep in a text:
\* functions at indentation 0, a def under an if, a class with a decorated
\* method, a comment, a nested def, one-line and two-line docstrings that
\* hold call-like text, and calls.
MasterLines ==
    <<
       <<"d", "e", "f", " ", "q", "(", ")", ":">>,                  \*  1  def q():
       <<"i", "f", " ", "x", ":">>,                                 \*  2  if x:
       <<" ", " ", "d", "e", "f", " ", "n", "(", ")", ":">>,        \*  3    def n():
       <<"c", "l", "a", "s", "s", " ", "A", ":">>,                  \*  4  class A:
       <<" ", " ", "@", "d">>,                                      \*  5    @d
       <<" ", " ", "#", " ", "c">>,                                 \*  6    # c
       <<" ", " ", "d", "e", "f", " ", "m", "(", "s", ")", ":">>,   \*  7    def m(s):
       <<" ", " ", " ", " ", "\"", "\"", "\"", "f", "(", ")", "\"", "\"", "\"">>, \*  8      """f()"""
       <<" ", " ", " ", " ", "d", "e", "f", " ", "i", "(", ")", ":">>, \*  9      def i():
       <<" ", " ", " ", " ", "g", "(", ")">>,                       \* 10      g()
       <<>>,                                                        \* 11  (empty)
       <<" ", " ", "d", "e", "f", " ", "p", "(", "s", ")", ":">>,   \* 12    def p(s):
       <<" ", " ", " ", " ", "\"", "\"", "\"", "e", "(", ")">>,     \* 13      """e()
       <<" ", " ", " ", " ", "\"", "\"", "\"">>,                    \* 14      """
       <<" ", " ", " ", " ", "h", "(", ")">>,                       \* 15      h()
       <<"d", "e", "f", " ", "r", "(", ")", ":">>                   \* 16  def r():
    >>

MaxLines == 5

\* The lines of MasterLines at the positions in S, in order.
Selected(S) ==
    LET at == SelectSeq([i \in 1..Len(MasterLines) |-> i], LAMBDA i : i \in S) IN
    [x \in 1..Len(at) |-> MasterLines[at[x]]]

\* The texts of one to MaxLines of these lines; a content is not empty.
ParseTexts ==
    { TextOf(Selected(S)) :
        S \in {T \in SUBSET (1..Len(MasterLines)) : Cardinality(T) \in 1..MaxLines} }
    \ {<<>>}

\* ParseOptions: includeDocstrings, as the route passes it on.
ParseOptionsSet == [includeDocstrings : BOOLEAN]

InitParse ==
    /\ BuilderIdle
    /\ FrontIdle
    /\ parseInput \in [content : ParseTexts, options : ParseOptionsSet]
    /\ parseOutput = <<>>
    /\ blockCall = <<>>

\* parseSingleFile on the text: the classes, functions, imports and variables.
ParseFile ==
    /\ parseOutput = <<>>
    /\ parseOutput' = <<parseContent(parseInput.content, parseInput.options)>>
    /\ UNCHANGED <<parseInput, blockCall>>
    /\ UNCHANGED builderVars
    /\ UNCHANGED frontVars

NextParse == ParseFile

SpecParse == InitParse /\ [][NextParse]_vars

(***************************************************************************)
(* The places of a text that the parser claims speak about                 *)
(***************************************************************************)

ParsedLines == linesOf(parseInput.content)

Range(f) == {f[x] : x \in DOMAIN f}

\* The functions and the methods the parse reports.
ReportedFunctions ==
    UNION { Range(parseOutput[x].functions)
            \cup UNION {Range(c.methods) : c \in Range(parseOutput[x].classes)}
            : x \in 1..Len(parseOutput) }

\* The last line index of the block whose header is at index k: the line before
\* the first later line that is indented no more than the header and is
\* neither blank nor a comment.
BlockEndOf(k) ==
    LET ds == Dedents(ParsedLines, k, getIndentLen(LineAt(ParsedLines, k))) IN
    IF ds # {} THEN Least(ds) - 1 ELSE Len(ParsedLines) - 1

\* The statements of the block of the header at k: its lines that are neither
\* blank nor comments.
StatementsOf(k) == {i \in (k + 1)..BlockEndOf(k) : ~IsBlankOrComment(LineAt(ParsedLines, i))}

\* The triple quote a trimmed line opens with, after at most two of r, u, R, U.
OpeningQuotes(t) ==
    { q \in TripleQuotes :
        \E k \in 0..2 : /\ HasAt(t, k + 1, q)
                        /\ \A y \in 1..k : t[y] \in {"r", "u", "R", "U"} }

\* The header at k has a docstring: its first statement opens with a triple quote.
HasDocstring(k) ==
    /\ StatementsOf(k) # {}
    /\ OpeningQuotes(Trim(LineAt(ParsedLines, Least(StatementsOf(k))))) # {}

\* The line index where the docstring of the header at k closes: the line it
\* opens on when the quote comes again on it, else the first later line with
\* the quote, else the last line of the text.
DocstringClose(k) ==
    LET f      == Least(StatementsOf(k))
        quote  == CHOOSE q \in OpeningQuotes(Trim(LineAt(ParsedLines, f))) : TRUE
        open   == IndexFrom(LineAt(ParsedLines, f), quote, 1)
        closes == { i \in (f + 1)..(Len(ParsedLines) - 1) :
                       IndexFrom(LineAt(ParsedLines, i), quote, 1) > 0 }
    IN  IF IndexFrom(LineAt(ParsedLines, f), quote, open + 3) > 0 THEN f
        ELSE IF closes # {} THEN Least(closes)
        ELSE Len(ParsedLines) - 1

\* The call sites on line index i.
CallSitesOn(i) == Range(callsInLine(LineAt(ParsedLines, i), 1, i))

\* C18: when the first statement of the body of a function or method is a
\* triple-quoted string, none of the call sites reported for it lies on a line of
\* that string, and the call sites of the lines after the string, up to the end
\* of the block, are reported; this holds for both values of includeDocstrings.
C18_NoCallsFromDocstring ==
    \A fn \in ReportedFunctions :
        LET k == fn.lineStart - 1 IN
        HasDocstring(k) =>
            /\ \A c \in Range(fn.calls) :
                  ~(Least(StatementsOf(k)) <= c.line - 1 /\ c.line - 1 <= DocstringClose(k))
            /\ \A i \in (DocstringClose(k) + 1)..BlockEndOf(k) :
                  CallSitesOn(i) \subseteq Range(fn.calls)

\* A function with a docstring that holds call-like text, parsed without
\* docstrings.
C18_Witness ==
    /\ ~parseInput.options.includeDocstrings
    /\ \E fn \in ReportedFunctions :
          /\ HasDocstring(fn.lineStart - 1)
          /\ \E i \in Least(StatementsOf(fn.lineStart - 1))..DocstringClose(fn.lineStart - 1) :
                CallSitesOn(i) # {}

\* The entries of ParsedModule.functions.
TopLevelReported == UNION {Range(parseOutput[x].functions) : x \in 1..Len(parseOutput)}

\* C20: ParsedModule.functions holds top-level functions only: the def header
\* of every entry is at indentation zero, so a def inside an indented block (a
\* class body, a function body, an if, try or with block) is never reported as
\* a top-level function.
C20_FunctionsAreTopLevel ==
    \A fn \in TopLevelReported : getIndentLen(LineAt(ParsedLines, fn.lineStart - 1)) = 0

\* A def under an if at indentation zero, reported among the functions.
C20_Witness ==
    \E fn \in TopLevelReported :
        /\ fn.lineStart - 1 >= 1
        /\ getIndentLen(LineAt(ParsedLines, fn.lineStart - 1)) > 0
        /\ \E k \in 0..(fn.lineStart - 2) :
              /\ getIndentLen(LineAt(ParsedLines, k)) = 0
              /\ StartsWith(LineAt(ParsedLines, k), <<"i", "f", " ">>)
              /\ fn.lineStart - 1 <= BlockEndOf(k)

\* The classes the parse reports.
ReportedClasses == UNION {Range(parseOutput[x].classes) : x \in 1..Len(parseOutput)}

\* The def header lines of the text.
DefHeaders == {k \in 0..(Len(ParsedLines) - 1) : MatchDef(LineAt(ParsedLines, k)).ok}

IndentAt(k) == getIndentLen(LineAt(ParsedLines, k))

\* The def headers inside the block of the class header at h that are
\* indented more than it.
DefsInClass(h) ==
    {k \in DefHeaders : h < k /\ k <= BlockEndOf(h) /\ IndentAt(k) > IndentAt(h)}

\* Of these, the ones that are not inside the block of an earlier one.
MethodHeaders(h) ==
    {k \in DefsInClass(h) : ~\E j \in DefsInClass(h) : j < k /\ k <= BlockEndOf(j)}

IsDecoratorOrBlank(i) ==
    \/ Trim(LineAt(ParsedLines, i)) = <<>>
    \/ Trim(LineAt(ParsedLines, i))[1] = "@"

\* The decorators directly above the header at k: the lines that start with
\* "@" in the run of decorator and blank lines that ends right before k.
DecoratorsAbove(k) ==
    LET from == Least({j \in 0..k : \A i \in j..(k - 1) : IsDecoratorOrBlank(i)}) IN
    SelectSeq([x \in 1..(k - from) |-> Trim(LineAt(ParsedLines, from + x - 1))],
              LAMBDA t : t # <<>>)

\* The first line index of the body of the header at k after its docstring.
AfterDocstring(k) == IF HasDocstring(k) THEN DocstringClose(k) + 1 ELSE k + 1

\* C19: in the block of a reported class, every def header indented more than
\* the class header and not inside the block of an earlier method yields
\* exactly one method of the class, with the header's name and the decorators
\* directly above it; a def indented no more than the class header lies after the
\* class block and is not a method of it, and when it is the line that ends the
\* block it is reported among the top-level functions; the call sites in a
\* method's body after its docstring are recorded on the method.
C19_MethodsOfAClass ==
    \A c \in ReportedClasses :
        LET h == c.lineStart - 1 IN
        /\ Len(c.methods) = Cardinality(MethodHeaders(h))
        /\ {m.lineStart - 1 : m \in Range(c.methods)} = MethodHeaders(h)
        /\ \A m \in Range(c.methods) :
              /\ m.name = MatchDef(LineAt(ParsedLines, m.lineStart - 1)).name
              /\ m.decorators = DecoratorsAbove(m.lineStart - 1)
              /\ \A i \in AfterDocstring(m.lineStart - 1)..BlockEndOf(m.lineStart - 1) :
                    CallSitesOn(i) \subseteq Range(m.calls)
        /\ \A k \in DefHeaders :
              (k > h /\ IndentAt(k) <= IndentAt(h)) =>
                  /\ c.lineEnd - 1 < k
                  /\ \A m \in Range(c.methods) : m.lineStart - 1 # k
                  /\ k = c.lineEnd => \E fn \in TopLevelReported : fn.lineStart - 1 = k

\* A class with a decorated method on which a call site is recorded, and a
\* function right after the class block.
C19_Witness ==
    \E c \in ReportedClasses :
        /\ \E m \in Range(c.methods) : m.decorators # <<>> /\ m.calls # <<>>
        /\ \E fn \in TopLevelReported : fn.lineStart = c.lineEnd + 1

(***************************************************************************)
(* Parse and build on the documented examples: the files are parsed with   *)
(* the default options and the graph is built from the result.             *)
(***************************************************************************)

NameSample  == <<"s", "a", "m", "p", "l", "e", ".", "p", "y">>
NameService == <<"s", "e", "r", "v", "i", "c", "e", ".", "p", "y">>

SampleFile       == UploadedFile(NameSample, Undefined, "Sample")
RequirementsFile == UploadedFile(NameService, Undefined, "Requirements")

ExampleFiles ==
    { SampleFile,
      RequirementsFile,
      UploadedFile(NameN, Undefined, "Guarded"),
      UploadedFile(NameN, Undefined, "Svc"),
      UploadedFile(NameM, PathA, "Base1") }

MaxExampleFiles == 2

ExampleInputs == ListsUpTo(ExampleFiles, MaxExampleFiles)

InitExamples ==
    /\ files \in ExampleInputs
    /\ pc = "prepass"
    /\ idx = 1
    /\ nodeById = <<>>
    /\ edgeWeightByKey = <<>>
    /\ topLevelFuncByModuleAndName = <<>>
    /\ classByModuleAndName = <<>>
    /\ methodByModuleClassAndName = <<>>
    /\ emitted = <<>>
    /\ graph = NoGraph
    /\ history = <<>>
    /\ firstGraph = NoGraph
    /\ ParserIdle
    /\ FrontIdle

NextExamples == PrePass \/ RefPass \/ Materialize

SpecExamples == InitExamples /\ [][NextExamples]_vars

\* The names of the examples.
SSample          == <<"s", "a", "m", "p", "l", "e">>
SService         == <<"s", "e", "r", "v", "i", "c", "e">>
SUserService     == <<"U", "s", "e", "r", "S", "e", "r", "v", "i", "c", "e">>
SGetUser         == <<"g", "e", "t", "_", "u", "s", "e", "r">>
SFetch           == <<"_", "f", "e", "t", "c", "h">>
SGetUsers        == <<"g", "e", "t", "_", "u", "s", "e", "r", "s">>
SFetchData       == <<"_", "f", "e", "t", "c", "h", "_", "d", "a", "t", "a">>
SRequests        == <<"r", "e", "q", "u", "e", "s", "t", "s">>
SRequestsGet     == <<"r", "e", "q", "u", "e", "s", "t", "s", ".", "g", "e", "t">>

\* What the output says of its nodes and of its edges.
NodeFacts == {[id |-> n.id, label |-> n.label, type |-> n.type] : n \in Range(graph.nodes)}

EdgeFacts ==
    { [source |-> e.source, relation |-> e.relation, target |-> e.target,
       weight |-> e.metadata.weight] : e \in Range(graph.edges) }

MAX_FILES == 200

MAX_TOTAL_CHARS == 2000000

DEFAULT_TIMEOUT_MS == 15000

\* z.number().int().positive().max(120_000)
MAX_TIMEOUT_MS == 120000

\* The text of a content; the text of Big is not written out.
ContentText(content) ==
    CASE content = "Sample"  -> JoinWith(SampleLines, <<"\n">>)
      [] content = "Guarded" -> JoinWith(GuardedLines, <<"\n">>)
      [] content = "Padded"  -> PaddedText
      [] content = "Hash"    -> HashText
      [] content = "Blank"   -> BlankText
      [] content = "Empty"   -> <<>>

WrittenContents == {"Sample", "Guarded", "Padded", "Hash", "Blank", "Empty"}

\* content.length
ContentLength(content) ==
    IF content = "Big" THEN MAX_TOTAL_CHARS \div 2 ELSE Len(ContentText(content))

\* (s ?? "").trim(): the content whose text is the trimmed text.
TrimContent(content) ==
    IF content = "Big" THEN "Big"
    ELSE CHOOSE c \in WrittenContents : ContentText(c) = Trim(ContentText(content))

\* fileSchemaPrimary and fileSchemaAlt
fileSchemaPrimary(f) ==
    /\ f.name # Undefined
    /\ Len(f.name) >= 1
    /\ ContentLength(f.content) >= 1

fileSchemaAlt(f) ==
    /\ f.filename # Undefined
    /\ Len(f.filename) >= 1
    /\ ContentLength(f.content) >= 1

\* The value unionFileSchema gives for a file that one of the schemas accepts.
unionFileSchema(f) ==
    IF fileSchemaPrimary(f) THEN [name |-> f.name, content |-> f.content, path |-> f.path]
    ELSE [name |-> f.filename, content |-> f.content, path |-> f.path]

\* bodySchema.safeParse(json).success
bodySchema(b) ==
    /\ b.hasFiles =>
          \A i \in 1..Len(b.files) : fileSchemaPrimary(b.files[i]) \/ fileSchemaAlt(b.files[i])
    /\ \/ b.timeoutMs = UndefinedNum
       \/ b.timeoutMs > 0 /\ b.timeoutMs <= MAX_TIMEOUT_MS
    /\ \/ b.hasFiles /\ Len(b.files) > 0
       \/ b.hasSnippets /\ Len(b.codeSnippets) > 0

\* `pasted-snippet-${c}.py`
PastedName(c) ==
    <<"p", "a", "s", "t", "e", "d", "-", "s", "n", "i", "p", "p", "e", "t", "-">>
        \o NumToStr(c) \o <<".", "p", "y">>

RECURSIVE snippetFiles(_, _, _)
\* The loop over codeSnippets from index i on, c being the counter.
snippetFiles(codeSnippets, i, c) ==
    IF i > Len(codeSnippets) THEN <<>>
    ELSE IF ContentLength(TrimContent(codeSnippets[i])) = 0
         THEN snippetFiles(codeSnippets, i + 1, c)
    ELSE <<UploadedFile(PastedName(c), Undefined, TrimContent(codeSnippets[i]))>>
         \o snippetFiles(codeSnippets, i + 1, c + 1)

\* The files the body gives, as the schema transformed them.
bodyFiles(b) ==
    IF b.hasFiles
    THEN [i \in 1..Len(b.files) |->
            UploadedFile(unionFileSchema(b.files[i]).name, unionFileSchema(b.files[i]).path,
                         unionFileSchema(b.files[i]).content)]
    ELSE <<>>

\* normalizedFiles after the two loops.
normalizedFiles(b) ==
    bodyFiles(b) \o (IF b.hasSnippets THEN snippetFiles(b.codeSnippets, 1, 1) ELSE <<>>)

\* How many of the files have the content c.
CountOf(fs, c) == Cardinality({i \in 1..Len(fs) : fs[i].content = c})

RECURSIVE SumLengths(_, _)
\* The sum of ContentLength over the files, taken content by content.
SumLengths(fs, cs) ==
    IF cs = {} THEN 0
    ELSE SumLengths(fs, cs \ {CHOOSE c \in cs : TRUE})
         + ContentLength(CHOOSE c \in cs : TRUE) * CountOf(fs, CHOOSE c \in cs : TRUE)

\* files.reduce((acc, f) => acc + (f.content?.length ?? 0), 0)
totalChars(fs) == SumLengths(fs, {fs[i].content : i \in 1..Len(fs)})

\* Limits that look at the number of files only.
enforceLimitsOnCountOnly(fs) == IF Len(fs) > MAX_FILES THEN 413 ELSE 0

\* enforceLimits: the status of the error it throws, 0 when it returns.
enforceLimits(fs) ==
    IF Len(fs) > MAX_FILES THEN 413
    ELSE IF totalChars(fs) > MAX_TOTAL_CHARS THEN 413
    ELSE 0

\* A request that has just arrived: no status yet (0).
NewRequest(b) ==
    [ pc |-> "json", body |-> b, normalized |-> <<>>, ms |-> 0, timer |-> "none",
      parserRan |-> FALSE, elapsed |-> 0, status |-> 0, answer |-> NoGraph ]

\* NextResponse.json(..., { status }): the handler returns.
Respond(status) == [request EXCEPT !.pc = "responded", !.status = status]

\* The files of the request bodies.
NameA == <<"a", ".", "p", "y">>

NameB == <<"b", ".", "p", "y">>

BodyFile(name, filename, content, path) ==
    [name |-> name, filename |-> filename, content |-> content, path |-> path]

Copies(f, n) == [i \in 1..n |-> f]

HashFile == BodyFile(NameA, Undefined, "Hash", Undefined)

BigFile == BodyFile(NameA, Undefined, "Big", Undefined)

JsonBody(hasFiles, fs, hasSnippets, snippets) ==
    [ json |-> TRUE, hasFiles |-> hasFiles, files |-> fs,
      hasSnippets |-> hasSnippets, codeSnippets |-> snippets ]

\* Bodies without timeoutMs: an unparsable one, ones the schema rejects, ones
\* that leave nothing after normalization, and ones at and over each limit.
BaseBodies ==
    { [JsonBody(FALSE, <<>>, FALSE, <<>>) EXCEPT !.json = FALSE],
      JsonBody(FALSE, <<>>, FALSE, <<>>),
      JsonBody(TRUE, <<>>, FALSE, <<>>),
      JsonBody(TRUE, <<>>, TRUE, <<>>),
      JsonBody(TRUE, <<BodyFile(<<>>, Undefined, "Hash", Undefined)>>, FALSE, <<>>),
      JsonBody(TRUE, <<BodyFile(NameA, Undefined, "Empty", Undefined)>>, FALSE, <<>>),
      JsonBody(TRUE, <<BodyFile(Undefined, NameN, "Guarded", Undefined)>>, FALSE, <<>>),
      JsonBody(TRUE, <<BodyFile(<<>>, NameN, "Guarded", PathA)>>, FALSE, <<>>),
      JsonBody(TRUE, <<BodyFile(NameSample, Undefined, "Sample", Undefined)>>, FALSE, <<>>),
      JsonBody(TRUE, <<BodyFile(NameA, Undefined, "Blank", Undefined)>>, FALSE, <<>>),
      JsonBody(FALSE, <<>>, TRUE, <<"Blank", "Empty">>),
      JsonBody(TRUE, <<>>, TRUE, <<"Blank">>),
      JsonBody(FALSE, <<>>, TRUE, <<"Blank", "Padded", "Empty", "Hash">>),
      JsonBody(TRUE, <<HashFile>>, TRUE, <<"Guarded">>),
      JsonBody(TRUE, <<HashFile, BodyFile(NameB, Undefined, "Hash", Undefined)>>, FALSE, <<>>),
      JsonBody(TRUE, <<BodyFile(NameN, Undefined, "Guarded", Undefined), HashFile>>, FALSE, <<>>),
      JsonBody(TRUE, Copies(HashFile, MAX_FILES), FALSE, <<>>),
      JsonBody(TRUE, Copies(HashFile, MAX_FILES), TRUE, <<"Blank">>),
      JsonBody(TRUE, Copies(HashFile, MAX_FILES + 1), FALSE, <<>>),
      JsonBody(TRUE, Copies(HashFile, MAX_FILES), TRUE, <<"Hash">>),
      JsonBody(TRUE, <<BigFile, BigFile>>, FALSE, <<>>),
      JsonBody(TRUE, <<BigFile, BigFile>>, TRUE, <<"Empty", "Blank">>),
      JsonBody(TRUE, <<BigFile, BigFile, HashFile>>, FALSE, <<>>),
      JsonBody(TRUE, <<BigFile, BigFile>>, TRUE, <<"Hash">>) }

\* The values of timeoutMs: absent, and around the ends of the allowed range.
TimeoutValues == {UndefinedNum, 0, 1, MAX_TIMEOUT_MS, MAX_TIMEOUT_MS + 1}

RequestBodies ==
    { [json |-> b.json, hasFiles |-> b.hasFiles, files |-> b.files,
       hasSnippets |-> b.hasSnippets, codeSnippets |-> b.codeSnippets, timeoutMs |-> t] :
      b \in BaseBodies, t \in TimeoutValues }

\* How long the parse and build work takes, in ms of wall-clock time: no
\* time, the default timeout, and more than the longest timeout allowed.
WorkDurations == {0, DEFAULT_TIMEOUT_MS, MAX_TIMEOUT_MS + 1}

InitRoute ==
    /\ BuilderIdle
    /\ ParserIdle
    /\ request \in {NewRequest(b) : b \in RequestBodies}
    /\ PageIdle
    /\ ViewIdle
    /\ UploaderIdle

routeFrame == <<page, view, uploader>>

\* await req.json(): a body that does not parse rejects, and the catch
\* answers with e.status ?? 500.
ReadJson ==
    /\ request.pc = "json"
    /\ request' = IF request.body.json THEN [request EXCEPT !.pc = "validate"]
                  ELSE Respond(500)
    /\ UNCHANGED <<builderVars, parserVars, routeFrame>>

\* safeParse, the two normalization loops and the check for an empty list.
Validate ==
    /\ request.pc = "validate"
    /\ request' =
          IF ~bodySchema(request.body) THEN Respond(400)
          ELSE IF Len(normalizedFiles(request.body)) = 0 THEN Respond(400)
          ELSE [request EXCEPT !.pc = "limits",
                               !.normalized = normalizedFiles(request.body)]
    /\ UNCHANGED <<builderVars, parserVars, routeFrame>>

\* enforceLimits; then ms, and the call of the async function up to its
\* await: parsePythonFiles runs to its end.  withTimeout arms the timer and
\* awaits the race.
StartWork ==
    /\ request.pc = "limits"
    /\ request' =
          IF enforceLimits(request.normalized) # 0
          THEN Respond(enforceLimits(request.normalized))
          ELSE [request EXCEPT !.pc = "parsed", !.parserRan = TRUE, !.timer = "armed",
                               !.ms = Coalesce(request.body.timeoutMs, DEFAULT_TIMEOUT_MS)]
    /\ UNCHANGED <<builderVars, parserVars, routeFrame>>

\* The async function goes on after its await, as a microtask:
\* buildKnowledgeGraphFromParsedModules is called with the parsed modules.
CallBuilder ==
    /\ request.pc = "parsed"
    /\ request' = [request EXCEPT !.pc = "building"]
    /\ files' = request.normalized
    /\ pc' = "prepass"
    /\ UNCHANGED <<idx, nodeById, edgeWeightByKey, topLevelFuncByModuleAndName,
                   classByModuleAndName, methodByModuleClassAndName, graph, emitted,
                   history, firstGraph>>
    /\ UNCHANGED <<parserVars, routeFrame>>

\* The builder has returned, after some wall-clock time: the work resolves,
\* the race with it, the finally clause clears the timer and the handler
\* answers 200.  All of this happens in microtasks that follow one another,
\* so the timer callback, a task of the event loop, cannot run in between
\* however long the work took.
WorkResolves ==
    /\ request.pc = "building"
    /\ pc = "done"
    /\ \E d \in WorkDurations :
          request' = [Respond(200) EXCEPT !.elapsed = d, !.timer = "cleared",
                                          !.answer = graph]
    /\ UNCHANGED <<builderVars, parserVars, routeFrame>>

NextRoute ==
    \/ ReadJson
    \/ Validate
    \/ StartWork
    \/ CallBuilder
    \/ PrePass
    \/ RefPass
    \/ Materialize
    \/ WorkResolves

SpecRoute == InitRoute /\ [][NextRoute]_vars
\* A snippet that trim leaves non-empty.
NonBlank(content) ==
    \/ content = "Big"
    \/ \E i \in 1..Len(ContentText(content)) : ContentText(content)[i] \notin Whitespace

\* The files and non-blank snippets of a body.
UsableCount(b) ==
    (IF b.hasFiles THEN Len(b.files) ELSE 0)
    + (IF b.hasSnippets
       THEN Cardinality({i \in 1..Len(b.codeSnippets) : NonBlank(b.codeSnippets[i])})
       ELSE 0)

WithinLimits(b) ==
    /\ UsableCount(b) <= MAX_FILES
    /\ totalChars(normalizedFiles(b)) <= MAX_TOTAL_CHARS

\* C21: POST /api/analyze answers 200, with the graph the builder returned,
\* only when the body passes the schema, at least one file or non-blank
\* snippet remains, and there are at most 200 files and at most 2,000,000
\* characters; a schema failure or a body with nothing usable gives 400, more
\* than 200 files or more than 2,000,000 characters gives 413, and in every
\* answer other than 200 neither the parser nor the graph builder has run.
C21_StatusOfAnalyze ==
    request.pc = "responded" =>
        /\ request.status = 200 =>
              /\ request.body.json
              /\ bodySchema(request.body)
              /\ UsableCount(request.body) >= 1
              /\ WithinLimits(request.body)
              /\ request.parserRan
              /\ pc = "done"
              /\ request.answer = graph
        /\ (request.body.json /\ (~bodySchema(request.body) \/ UsableCount(request.body) = 0))
              => request.status = 400
        /\ ( /\ request.body.json
             /\ bodySchema(request.body)
             /\ UsableCount(request.body) >= 1
             /\ ~WithinLimits(request.body) )
              => request.status = 413
        /\ request.status # 200 =>
              /\ ~request.parserRan
              /\ pc = "idle"
              /\ request.answer = NoGraph

\* A body of 200 files and a blank snippet has been answered with 200.
C21_Witness ==
    /\ request.pc = "responded"
    /\ request.status = 200
    /\ Len(request.normalized) = MAX_FILES
    /\ request.body.hasSnippets
    /\ Len(request.body.codeSnippets) > 0

\* C22: the parse and build work is bounded by the timeout: a request whose
\* work took longer than its timeout (timeoutMs, 15000 ms when absent) is
\* answered with 408 and not with a graph, and whenever the handler returns
\* after the timer was set, the timer has been cleared.
C22_TimeoutBoundsWork ==
    request.pc = "responded" /\ request.parserRan =>
        /\ request.elapsed > request.ms => request.status = 408 /\ request.answer = NoGraph
        /\ request.timer = "cleared"

\* The work of a request with timeoutMs = 1 took 15000 ms and the handler
\* has returned.
C22_Witness ==
    /\ request.pc = "responded"
    /\ request.body.timeoutMs = 1
    /\ request.ms = 1
    /\ request.elapsed = DEFAULT_TIMEOUT_MS

\* Whenever the handler has returned, no timer is left armed.
TimerIsCleared == request.pc = "responded" => request.timer # "armed"


(***************************************************************************)
(* The Home page (page.tsx).  page holds the React state of the component  *)
(* (files, graph, markdown, stage, activeTab, snackbar, selectedFileNames) *)
(* and the invocations of runAnalysis that are waiting for a response.     *)
(* A state update made in an event handler is rendered before the next     *)
(* event is handled, so the disabled attribute of a button is computed     *)
(* from the state itself.  Three history fields record what the claims     *)
(* speak about: trail (the stages set since the last run started),         *)
(* startedFrom (the stage at which the last run or reset started) and      *)
(* outcome (how the last run ended).                                       *)
(***************************************************************************)

\* useState<TKnowledgeGraph | null>: null, or the graph.
Null == <<>>

Some(g) == <<g>>

\* The file lists that CodeUploader hands to onChange.
PageFileLists ==
    { <<>>,
      <<UploadedFile(NameA, Undefined, "Hash")>>,
      <<UploadedFile(NameA, Undefined, "Hash"), UploadedFile(NameB, Undefined, "Hash")>> }

\* The file path and the module name that parseSingleFile gives a file.
FileModule(file) ==
    [ filePath   |-> IF file.path = Undefined THEN file.name ELSE file.path,
      moduleName |-> deriveModuleName(file.name) ]

\* The module node of a file without imports as the builder returns it.
ModuleNodeOf(file) == modNodeByIdSetMetadata(ModuleNode(FileModule(file)), <<>>)

\* The graphs of the 200 answers of /api/analyze to such lists: one module
\* node per file, in id order, and no edge.
GraphOfFiles(fs) ==
    [ nodes |-> [i \in 1..Len(fs) |-> ModuleNodeOf(fs[i])],
      edges |-> <<>> ]

\* How a fetch and the reading of its body can end: a response with ok set
\* and a readable body, a response with ok unset, or a rejection (network
\* failure, unreadable body).
Settlements == {"ok", "notOk", "rejected"}

NewPage ==
    [ files |-> <<>>, graph |-> Null, markdown |-> "", stage |-> "idle",
      activeTab |-> "graph", snackbar |-> "closed", selectedFileNames |-> <<>>,
      runs |-> <<>>, trail |-> <<>>, startedFrom |-> "idle", outcome |-> "none" ]

canAnalyze(p) == Len(p.files) > 0

\* A mutation of analyzeDisabled: the button is disabled on an empty selection only.
analyzeDisabledOnEmptyOnly(p) == ~canAnalyze(p)

\* disabled={!canAnalyze || stage === "building" || stage === "analyzing"}
analyzeDisabled(p) ==
    ~canAnalyze(p) \/ p.stage = "building" \/ p.stage = "analyzing"

\* disabled={stage === "building" || stage === "analyzing"}
resetDisabled(p) == p.stage = "building" \/ p.stage = "analyzing"

\* runAnalysis up to its first await.
runAnalysis(p) ==
    IF ~canAnalyze(p)
    THEN [p EXCEPT !.snackbar = "warning"]
    ELSE [p EXCEPT !.stage = "building", !.graph = Null, !.markdown = "",
                   !.activeTab = "graph",
                   !.runs = Append(@, [at |-> "res1", files |-> p.files]),
                   !.trail = <<"building">>, !.startedFrom = p.stage,
                   !.outcome = "running"]

\* The catch block of runAnalysis.
runFailed(p) ==
    [p EXCEPT !.stage = "idle", !.snackbar = "error",
              !.trail = Append(@, "idle"), !.outcome = "failed"]

resetAll(p) ==
    [p EXCEPT !.files = <<>>, !.graph = Null, !.markdown = "", !.stage = "idle",
              !.activeTab = "graph", !.selectedFileNames = <<>>,
              !.trail = <<>>, !.startedFrom = p.stage, !.outcome = "none"]

WithoutRun(runs, i) == SubSeq(runs, 1, i - 1) \o SubSeq(runs, i + 1, Len(runs))

InitPage ==
    /\ BuilderIdle
    /\ ParserIdle
    /\ RouteIdle
    /\ page = NewPage
    /\ ViewIdle
    /\ UploaderIdle

pageFrame == <<request, view, uploader>>

\* CodeUploader calls onChange={setFiles}.
FilesChanged ==
    /\ \E fs \in PageFileLists : page' = [page EXCEPT !.files = fs]
    /\ UNCHANGED builderVars
    /\ UNCHANGED parserVars
    /\ UNCHANGED pageFrame

\* A click on the Analyze button.
ClickAnalyze ==
    /\ ~analyzeDisabled(page)
    /\ page' = runAnalysis(page)
    /\ UNCHANGED builderVars
    /\ UNCHANGED parserVars
    /\ UNCHANGED pageFrame

\* The request to /api/analyze of a run settles.
AnalyzeSettles ==
    /\ \E i \in DOMAIN page.runs : \E s \in Settlements :
          /\ page.runs[i].at = "res1"
          /\ page' =
                IF s = "ok"
                THEN [page EXCEPT !.graph = Some(GraphOfFiles(page.runs[i].files)),
                                  !.stage = "analyzing",
                                  !.runs[i].at = "res2",
                                  !.trail = Append(@, "analyzing")]
                ELSE [runFailed(page) EXCEPT !.runs = WithoutRun(@, i)]
    /\ UNCHANGED builderVars
    /\ UNCHANGED parserVars
    /\ UNCHANGED pageFrame

\* The request to /api/conventions of a run settles.
ConventionsSettles ==
    /\ \E i \in DOMAIN page.runs : \E s \in Settlements :
          /\ page.runs[i].at = "res2"
          /\ page' =
                IF s = "ok"
                THEN [page EXCEPT !.markdown = "markdown", !.stage = "done",
                                  !.activeTab = "conventions",
                                  !.snackbar = "success",
                                  !.runs = WithoutRun(@, i),
                                  !.trail = Append(@, "done"),
                                  !.outcome = "completed"]
                ELSE [runFailed(page) EXCEPT !.runs = WithoutRun(@, i)]
    /\ UNCHANGED builderVars
    /\ UNCHANGED parserVars
    /\ UNCHANGED pageFrame

\* A click on the Reset button.
ClickReset ==
    /\ ~resetDisabled(page)
    /\ page' = resetAll(page)
    /\ UNCHANGED builderVars
    /\ UNCHANGED parserVars
    /\ UNCHANGED pageFrame

\* A click on one of the two tabs.
SelectTab ==
    /\ \E tab \in {"graph", "conventions"} : page' = [page EXCEPT !.activeTab = tab]
    /\ UNCHANGED builderVars
    /\ UNCHANGED parserVars
    /\ UNCHANGED pageFrame

\* setSelectedFileNames of a click on the button of a file.
toggleSelected(prev, name) ==
    IF \E i \in DOMAIN prev : prev[i] = name
    THEN SelectSeq(prev, LAMBDA n : n # name)
    ELSE <<name>>

\* A click on the button of an uploaded file.
ClickFile ==
    /\ \E i \in DOMAIN page.files :
          page' = [page EXCEPT
                      !.selectedFileNames = toggleSelected(@, page.files[i].name),
                      !.activeTab = "graph"]
    /\ UNCHANGED builderVars
    /\ UNCHANGED parserVars
    /\ UNCHANGED pageFrame

\* A click on Clear selection, shown for more than one file.
ClearSelection ==
    /\ Len(page.files) > 1
    /\ page' = [page EXCEPT !.selectedFileNames = <<>>]
    /\ UNCHANGED builderVars
    /\ UNCHANGED parserVars
    /\ UNCHANGED pageFrame

NextPage ==
    \/ FilesChanged
    \/ ClickAnalyze
    \/ AnalyzeSettles
    \/ ConventionsSettles
    \/ ClickReset
    \/ SelectTab
    \/ ClickFile
    \/ ClearSelection

SpecPage == InitPage /\ [][NextPage]_vars

\* The stages a run may have set so far: building, then analyzing, then done,
\* or idle after building or after analyzing.
RunTrails ==
    { <<>>, <<"building">>, <<"building", "analyzing">>,
      <<"building", "analyzing", "done">>,
      <<"building", "idle">>, <<"building", "analyzing", "idle">> }

\* C23: within one run the stage goes through building, analyzing and done,
\* a failure of either request brings it back to idle, a run or a reset starts
\* only from idle or done, at most one run is in flight, the stage is
\* building or analyzing only while a run waits for the matching request,
\* and whenever the stage is done the graph is set.
C23_StageOfAnalysis ==
    /\ page.trail \in RunTrails
    /\ page.outcome = "failed" => page.stage = "idle"
    /\ page.startedFrom \in {"idle", "done"}
    /\ Len(page.runs) <= 1
    /\ page.stage = "building" <=> \E i \in DOMAIN page.runs : page.runs[i].at = "res1"
    /\ page.stage = "analyzing" <=> \E i \in DOMAIN page.runs : page.runs[i].at = "res2"
    /\ page.runs = <<>> => page.stage \in {"idle", "done"}
    /\ page.stage = "done" => page.graph # Null

\* A second run, started from done, has completed after the files changed.
C23_Witness ==
    /\ page.stage = "done"
    /\ page.startedFrom = "done"
    /\ page.trail = <<"building", "analyzing", "done">>
    /\ page.runs = <<>>
    /\ page.graph # Null
    /\ page.graph # Some(GraphOfFiles(page.files))


(***************************************************************************)
(* The KnowledgeGraph component (KnowledgeGraph.tsx).  view holds its      *)
(* props (graph, filterModules, filterFilePaths), its state (the relation  *)
(* checkboxes) and the value cached by its useMemo: the React Flow nodes   *)
(* and edges it renders.  An optional array prop is a record: given tells  *)
(* whether the prop is defined, items is the array.                        *)
(***************************************************************************)

NoArray == [given |-> FALSE, items |-> <<>>]

Array(items) == [given |-> TRUE, items |-> items]

InSeq(s, x) == \E i \in DOMAIN s : s[i] = x

\* n.endsWith(".py") ? n.slice(0, -3) : n
moduleOfFileName(n) ==
    IF EndsWith(n, <<".", "p", "y">>) THEN SubSeq(n, 1, Len(n) - 3) ELSE n

\* Array.from(new Set(files.map(...))): the first occurrence of each value.
availableModules(fs) ==
    LET ms == [i \in 1..Len(fs) |-> moduleOfFileName(fs[i].name)]
    IN  SelectSeq([i \in 1..Len(ms) |-> [m |-> ms[i], first |-> \A j \in 1..(i - 1) : ms[j] # ms[i]]],
                  LAMBDA e : e.first)

\* The filterModules prop that Home passes.
filterModulesProp(fs, selected) ==
    IF Len(selected) > 0
    THEN Array([i \in 1..Len(SelectSeq(availableModules(fs),
                    LAMBDA e : \E k \in DOMAIN selected : StartsWith(selected[k], e.m))) |->
                SelectSeq(availableModules(fs),
                    LAMBDA e : \E k \in DOMAIN selected : StartsWith(selected[k], e.m))[i].m])
    ELSE NoArray

\* The filterFilePaths prop that Home passes.
filterFilePathsProp(fs, selected) ==
    IF Len(selected) > 0
    THEN Array([i \in 1..Len(SelectSeq(fs, LAMBDA f : InSeq(selected, f.name))) |->
                SelectSeq(fs, LAMBDA f : InSeq(selected, f.name))[i].name])
    ELSE NoArray

\* Boolean((filterModules && filterModules.length) || (filterFilePaths && filterFilePaths.length))
filtersProvided(fm, fp) ==
    (fm.given /\ Len(fm.items) > 0) \/ (fp.given /\ Len(fp.items) > 0)

\* md.module || md.moduleName || node.label
moduleOfNode(node) ==
    IF "module" \in DOMAIN node.metadata /\ node.metadata.module # <<>>
    THEN node.metadata.module
    ELSE IF "moduleName" \in DOMAIN node.metadata /\ node.metadata.moduleName # <<>>
    THEN node.metadata.moduleName
    ELSE node.label

nodeAllowed(node, fm, fp) ==
    LET moduleSet == Range(fm.items)
        pathSet   == Range(fp.items)
        moduleOk  == moduleSet = {} \/ (moduleOfNode(node) # <<>> /\ moduleOfNode(node) \in moduleSet)
        pathOk    == pathSet = {} \/
                     (node.filePath # Undefined /\ node.filePath # <<>> /\ node.filePath \in pathSet)
    IN  IF ~filtersProvided(fm, fp) THEN TRUE
        ELSE IF moduleSet # {} /\ pathSet # {} THEN moduleOk /\ pathOk
        ELSE IF moduleSet # {} THEN moduleOk
        ELSE IF pathSet # {} THEN pathOk
        ELSE TRUE

\* The value of the relation checkboxes after construction.
AllRelations == [imports |-> TRUE, calls |-> TRUE, inherits |-> TRUE, uses |-> TRUE, defines |-> TRUE]

EdgeFilterKeys == {"imports", "calls", "inherits", "uses", "defines"}

\* The EdgeFilterKey a relation string is, "" for any other string.
filterKeyOf(relation) ==
    IF relation = SImports THEN "imports"
    ELSE IF relation = SCalls THEN "calls"
    ELSE IF relation = SInherits THEN "inherits"
    ELSE IF relation = SUses THEN "uses"
    ELSE IF relation = SDefines THEN "defines"
    ELSE ""

\* (filters as any)[e.relation] !== false
relationShown(filters, relation) ==
    IF filterKeyOf(relation) = "" THEN TRUE ELSE filters[filterKeyOf(relation)]

displayNodes(g, fm, fp) == SelectSeq(g.nodes, LAMBDA n : nodeAllowed(n, fm, fp))

allowedIds(g, fm, fp) == {g.nodes[i].id : i \in {j \in DOMAIN g.nodes : nodeAllowed(g.nodes[j], fm, fp)}}

displayEdges(g, fm, fp) ==
    IF filtersProvided(fm, fp)
    THEN SelectSeq(g.edges, LAMBDA e : e.source \in allowedIds(g, fm, fp)
                                       /\ e.target \in allowedIds(g, fm, fp))
    ELSE g.edges

\* The value the useMemo callback returns: the React Flow nodes and edges.
rfNodesAndEdges(g, fm, fp, filters) ==
    [ nodes |-> [i \in 1..Len(displayNodes(g, fm, fp)) |->
                    [id |-> displayNodes(g, fm, fp)[i].id,
                     label |-> displayNodes(g, fm, fp)[i].label]],
      edges |-> [i \in 1..Len(SelectSeq(displayEdges(g, fm, fp),
                                LAMBDA e : relationShown(filters, e.relation))) |->
                    [id |-> SelectSeq(displayEdges(g, fm, fp),
                                LAMBDA e : relationShown(filters, e.relation))[i].id,
                     source |-> SelectSeq(displayEdges(g, fm, fp),
                                LAMBDA e : relationShown(filters, e.relation))[i].source,
                     target |-> SelectSeq(displayEdges(g, fm, fp),
                                LAMBDA e : relationShown(filters, e.relation))[i].target,
                     relation |-> SelectSeq(displayEdges(g, fm, fp),
                                LAMBDA e : relationShown(filters, e.relation))[i].relation]] ]

\* Two uploaded files: n.py with a def under an if that calls g, which no
\* file declares, and a.py with a comment only.
ViewFiles ==
    <<UploadedFile(NameN, Undefined, "Guarded"), UploadedFile(NameA, Undefined, "Hash")>>

\* The function that the parser reports for the content of n.py.
GuardedFn ==
    [ name |-> <<"n">>, parameters |-> <<>>, returnHint |-> Undefined,
      isAsync |-> FALSE, isPrivate |-> FALSE, decorators |-> <<>>,
      lineStart |-> 2, lineEnd |-> 3, docstring |-> Undefined,
      codeExcerpt |-> <<" ", " ", "d", "e", "f", " ", "n", "(", ")", ":", "\n",
                        " ", " ", " ", " ", "g", "(", ")">>,
      calls |-> <<[name |-> <<"g">>, line |-> 3, column |-> 5, qualified |-> <<"g">>]>> ]

\* One CodeEdge of weight 1.
Edge(source, relation, target) ==
    EdgeOf([k |-> EdgeKey(source, relation, target), v |-> 1])

\* The graph that the endpoint answers for ViewFiles.
ViewGraph ==
    [ nodes |-> << ModuleNodeOf(ViewFiles[2]),
                   ExternalNode(externalFunctionNodeId(<<"g">>), <<"g">>, SFunction),
                   FunctionNode(FileModule(ViewFiles[1]), GuardedFn),
                   ModuleNodeOf(ViewFiles[1]) >>,
      edges |-> << Edge(FunctionNode(FileModule(ViewFiles[1]), GuardedFn).id, SUses,
                        externalFunctionNodeId(<<"g">>)),
                   Edge(moduleNodeId(<<"n">>), SDefines,
                        FunctionNode(FileModule(ViewFiles[1]), GuardedFn).id) >> ]

\* The graphs the page hands to the component.
ViewGraphs == {ViewGraph, GraphOfFiles(<<ViewFiles[2], UploadedFile(NameB, Undefined, "Hash")>>)}

\* The values of selectedFileNames: nothing, or the one file clicked last.
ViewSelections == {<<>>, <<NameN>>, <<NameA>>}

\* The file lists of the page while the graph is shown.
ViewFileLists == {ViewFiles, <<ViewFiles[2]>>}

\* The pairs of filter props that the page passes.
ViewFilterProps ==
    { [filterModules |-> filterModulesProp(fs, sel), filterFilePaths |-> filterFilePathsProp(fs, sel)] :
        fs \in ViewFileLists, sel \in ViewSelections }

\* The first render of the component: state initialised, memo computed.
mountedView(g, f) ==
    [ mounted |-> TRUE, graph |-> g, filterModules |-> f.filterModules,
      filterFilePaths |-> f.filterFilePaths, filters |-> AllRelations,
      memo |-> rfNodesAndEdges(g, f.filterModules, f.filterFilePaths, AllRelations) ]

InitView ==
    /\ BuilderIdle
    /\ ParserIdle
    /\ RouteIdle
    /\ PageIdle
    /\ view \in {mountedView(g, f) : g \in ViewGraphs, f \in ViewFilterProps}
    /\ UploaderIdle

viewFrame == <<request, page, uploader>>

\* The page renders with a new graph object (a run has set the graph): the
\* dependency graph has changed and the memo is computed again.
GraphChanges ==
    /\ view.mounted
    /\ \E g \in ViewGraphs : \E f \in ViewFilterProps :
          view' = [view EXCEPT !.graph = g, !.filterModules = f.filterModules,
                               !.filterFilePaths = f.filterFilePaths,
                               !.memo = rfNodesAndEdges(g, f.filterModules,
                                                        f.filterFilePaths, view.filters)]
    /\ UNCHANGED builderVars
    /\ UNCHANGED parserVars
    /\ UNCHANGED viewFrame

\* The page renders with the same graph object and other filter props (a file
\* was clicked): neither dependency of the useMemo has changed, and the
\* cached value is kept.
FilterPropsChange ==
    /\ view.mounted
    /\ \E f \in ViewFilterProps :
          view' = [view EXCEPT !.filterModules = f.filterModules,
                               !.filterFilePaths = f.filterFilePaths]
    /\ UNCHANGED builderVars
    /\ UNCHANGED parserVars
    /\ UNCHANGED viewFrame

\* handleToggleFilter: a new filters object, so the memo is computed again
\* with the props of this render.
ToggleFilter ==
    /\ view.mounted
    /\ \E key \in EdgeFilterKeys :
          view' = [view EXCEPT
                      !.filters[key] = ~@,
                      !.memo = rfNodesAndEdges(view.graph, view.filterModules,
                                               view.filterFilePaths,
                                               [view.filters EXCEPT ![key] = ~@])]
    /\ UNCHANGED builderVars
    /\ UNCHANGED parserVars
    /\ UNCHANGED viewFrame

\* The page stops rendering the component (other tab, or graph set to null).
UnmountView ==
    /\ view.mounted
    /\ view' = [mounted |-> FALSE]
    /\ UNCHANGED builderVars
    /\ UNCHANGED parserVars
    /\ UNCHANGED viewFrame

\* The page renders the component again.
MountView ==
    /\ ~view.mounted
    /\ \E g \in ViewGraphs : \E f \in ViewFilterProps : view' = mountedView(g, f)
    /\ UNCHANGED builderVars
    /\ UNCHANGED parserVars
    /\ UNCHANGED viewFrame

NextView == GraphChanges \/ FilterPropsChange \/ ToggleFilter \/ UnmountView \/ MountView

SpecView == InitView /\ [][NextView]_vars

RenderedIds == {view.memo.nodes[i].id : i \in DOMAIN view.memo.nodes}

\* C24: whenever the component is given filterModules or filterFilePaths, the
\* nodes it renders are exactly the nodes of its graph that the current values
\* of the two filters allow, and every edge it renders has both endpoints
\* rendered and its relation checkbox on.
C24_RendersTheFilteredGraph ==
    view.mounted /\ filtersProvided(view.filterModules, view.filterFilePaths) =>
        /\ RenderedIds = allowedIds(view.graph, view.filterModules, view.filterFilePaths)
        /\ \A i \in DOMAIN view.memo.edges :
              /\ view.memo.edges[i].source \in RenderedIds
              /\ view.memo.edges[i].target \in RenderedIds
              /\ relationShown(view.filters, view.memo.edges[i].relation)

\* The component shows the graph of n.py and a.py, is given the filters of a
\* click on n.py, and renders the external node g, which they do not allow.
C24_Witness ==
    /\ view.mounted
    /\ view.graph = ViewGraph
    /\ view.filterModules = Array(<< <<"n">> >>)
    /\ view.filterFilePaths = Array(<<NameN>>)
    /\ externalFunctionNodeId(<<"g">>) \in RenderedIds

\* Right after a computation of the memo the rendering is the filtered graph:
\* the rendering differs from it only while a change of the filter props has
\* not been followed by a change of the graph or of a checkbox.
MemoIsFilteredGraphOfItsInputs ==
    view.mounted =>
        \E f \in ViewFilterProps :
            view.memo = rfNodesAndEdges(view.graph, f.filterModules, f.filterFilePaths, view.filters)

\* The graphs used for the page and the component are the answers of the
\* endpoint to their files.
GraphsAreAnswers ==
    request.pc = "responded" /\ request.status = 200 =>
        /\ request.normalized = ViewFiles => request.answer = ViewGraph
        /\ request.normalized \in PageFileLists
              => request.answer = GraphOfFiles(request.normalized)


\* C25: in every returned graph the source and the target of every edge are
\* ids of nodes of the same graph, also when a module name, an import name or
\* a base-class name contains "|", ":" or ".".
C25_EdgesJoinNodesOfTheGraph ==
    pc = "done" =>
        \A j \in 1..Len(graph.edges) :
            /\ graph.edges[j].source \in NodeIds
            /\ graph.edges[j].target \in NodeIds

\* A graph has been returned for a file whose parse has a base-class name
\* with "|" in it, and an edge of the graph starts at no node of the graph.
C25_Witness ==
    /\ pc = "done"
    /\ \E fi \in FileIdx : \E ci \in ClassIdx(fi) :
          \E k \in 1..Len(modules[fi].classes[ci].baseClasses) :
              Includes(modules[fi].classes[ci].baseClasses[k], "|")
    /\ \E j \in 1..Len(graph.edges) : graph.edges[j].source \notin NodeIds

\* Every addEdge call is made with the ids of two nodes of the returned graph:
\* the edges that join no node come from the splitting of their key only.
EmittedJoinNodesOfTheGraph ==
    pc = "done" =>
        \A i \in 1..Len(emitted) :
            /\ emitted[i].source \in NodeIds
            /\ emitted[i].target \in NodeIds


\* The callers of one module that have the same name as c and are declared in
\* the same class (or both at top level) of a file of that module.
Namesakes(c) ==
    {d \in Callers :
        /\ modules[d.file].moduleName = modules[c.file].moduleName
        /\ FnOf(d).name = FnOf(c).name
        /\ IF c.cls = 0 THEN d.cls = 0
           ELSE /\ d.cls # 0
                /\ modules[d.file].classes[d.cls].name = modules[c.file].classes[c.cls].name}

\* C26: every calls or uses occurrence produced for a call site has as its
\* source the node of the function or method whose body contains the call
\* site, and every inherits occurrence produced for a base-class name has as
\* its target the node of the class whose declaration names that base; also
\* when a module declares two functions, two methods of one class or two
\* classes of the same name at different lines.
C26_EdgesStartAtTheirOwner ==
    pc = "done" =>
        /\ \A s \in CallSites : \A i \in EmittedAt(s) :
              emitted[i].source = OwnId([file |-> s.file, cls |-> s.cls, fn |-> s.fn])
        /\ \A s \in BaseSites : \A i \in EmittedAt(s) :
              emitted[i].target = ClassNode(modules[s.file], modules[s.file].classes[s.cls]).id

\* A module declares a top-level function twice, at different lines, and the
\* occurrence produced for a call site of one of them starts at the other.
C26_Witness ==
    /\ pc = "done"
    /\ \E s \in CallSites : \E i \in EmittedAt(s) :
          /\ s.cls = 0
          /\ emitted[i].source # OwnId([file |-> s.file, cls |-> s.cls, fn |-> s.fn])
          /\ \E d \in Namesakes([file |-> s.file, cls |-> s.cls, fn |-> s.fn]) :
                /\ d.file = s.file
                /\ d.cls = 0
                /\ emitted[i].source = OwnId(d)
                /\ FnOf(d).lineStart # FnOf([file |-> s.file, cls |-> s.cls, fn |-> s.fn]).lineStart

\* The sources and targets of C26 are wrong only between declarations of one
\* name: the source of an occurrence is the node of a namesake of the caller,
\* and the target of an inherits occurrence is a class of the same module and
\* name as the declaring class.
OwnerIsANamesake ==
    pc = "done" =>
        /\ \A s \in CallSites : \A i \in EmittedAt(s) :
              emitted[i].source
                \in {OwnId(d) : d \in Namesakes([file |-> s.file, cls |-> s.cls, fn |-> s.fn])}
        /\ \A s \in BaseSites : \A i \in EmittedAt(s) :
              \E g \in FileIdx :
                  /\ modules[g].moduleName = modules[s.file].moduleName
                  /\ emitted[i].target
                       \in ClassIdsIn(g, modules[s.file].classes[s.cls].name)


\* The line ranges lineStart..lineEnd of two records have no line in common.
Disjoint(a, b) == a.lineEnd < b.lineStart \/ b.lineEnd < a.lineStart

\* The records of a list lie one after the other: each ends before the next starts.
Ascending(s) == \A i \in 1..(Len(s) - 1) : s[i].lineEnd < s[i + 1].lineStart

\* C27: for a parsed file of n lines, every class, function and method has
\* 1 <= lineStart <= lineEnd <= n; the top-level classes and functions have
\* pairwise disjoint line ranges and are listed in ascending order; every
\* method lies inside its class, after the class header, and the methods of a
\* class have pairwise disjoint ranges; every call site of a function or
\* method is on a line after its header and not after its last line.
C27_LineRanges ==
    \A x \in 1..Len(parseOutput) :
        LET n   == Len(ParsedLines)
            cs  == parseOutput[x].classes
            fs  == parseOutput[x].functions
            top == Range(cs) \cup Range(fs)
        IN  /\ \A r \in top \cup ReportedFunctions :
                  1 <= r.lineStart /\ r.lineStart <= r.lineEnd /\ r.lineEnd <= n
            /\ \A a, b \in top : a # b => Disjoint(a, b)
            /\ Ascending(cs)
            /\ Ascending(fs)
            /\ \A c \in Range(cs) :
                  /\ \A m \in Range(c.methods) :
                        /\ c.lineStart < m.lineStart
                        /\ m.lineStart <= m.lineEnd
                        /\ m.lineEnd <= c.lineEnd
                  /\ Ascending(c.methods)
            /\ \A fn \in ReportedFunctions : \A k \in 1..Len(fn.calls) :
                  fn.lineStart < fn.calls[k].line /\ fn.calls[k].line <= fn.lineEnd

\* The parse of a text whose last line is a def header reports the name of
\* that def as a call site of the function, on the header line itself.
C27_Witness ==
    \E x \in 1..Len(parseOutput) : \E fn \in Range(parseOutput[x].functions) :
        /\ fn.lineStart = Len(ParsedLines)
        /\ \E k \in 1..Len(fn.calls) :
              fn.calls[k].line = fn.lineStart /\ fn.calls[k].name = fn.name

\* Apart from that, the ranges are as C27 states: the only call sites that are
\* not after the header are on the header, for a function or method whose
\* header is the last line of the text, parsed with includeDocstrings on.
LineRangesApartFromLastHeader ==
    \A x \in 1..Len(parseOutput) :
        LET n   == Len(ParsedLines)
            cs  == parseOutput[x].classes
            fs  == parseOutput[x].functions
            top == Range(cs) \cup Range(fs)
        IN  /\ \A r \in top \cup ReportedFunctions :
                  1 <= r.lineStart /\ r.lineStart <= r.lineEnd /\ r.lineEnd <= n
            /\ \A a, b \in top : a # b => Disjoint(a, b)
            /\ Ascending(cs)
            /\ Ascending(fs)
            /\ \A c \in Range(cs) :
                  /\ \A m \in Range(c.methods) :
                        /\ c.lineStart < m.lineStart
                        /\ m.lineStart <= m.lineEnd
                        /\ m.lineEnd <= c.lineEnd
                  /\ Ascending(c.methods)
            /\ \A fn \in ReportedFunctions : \A k \in 1..Len(fn.calls) :
                  /\ fn.calls[k].line <= fn.lineEnd
                  /\ \/ fn.lineStart < fn.calls[k].line
                     \/ /\ fn.calls[k].line = fn.lineStart
                        /\ fn.lineStart = n
                        /\ parseInput.options.includeDocstrings


(***************************************************************************)
(* Builds on files of a module named external: the ids of its declared     *)
(* nodes start like the ids of the placeholders.                           *)
(***************************************************************************)

NameExternal == <<"e", "x", "t", "e", "r", "n", "a", "l", ".", "p", "y">>

\* external.py with the contents that declare the class B and the functions g
\* and h, and n.py with contents that refer to g, to B and to names that no
\* file declares.
ExternalFiles ==
    { UploadedFile(NameExternal, Undefined, "Base1"),
      UploadedFile(NameExternal, Undefined, "Svc"),
      UploadedFile(NameExternal, Undefined, "Guarded"),
      UploadedFile(NameN, Undefined, "Guarded"),
      UploadedFile(NameN, Undefined, "Svc") }

MaxExternalFiles == 2

InitExternal ==
    /\ files \in ListsUpTo(ExternalFiles, MaxExternalFiles)
    /\ pc = "prepass"
    /\ idx = 1
    /\ nodeById = <<>>
    /\ edgeWeightByKey = <<>>
    /\ topLevelFuncByModuleAndName = <<>>
    /\ classByModuleAndName = <<>>
    /\ methodByModuleClassAndName = <<>>
    /\ emitted = <<>>
    /\ graph = NoGraph
    /\ history = <<>>
    /\ firstGraph = NoGraph
    /\ ParserIdle
    /\ FrontIdle

NextExternal == PrePass \/ RefPass \/ Materialize

SpecExternal == InitExternal /\ [][NextExternal]_vars

\* The ids of the nodes that the declarations of the input produce.
DeclaredIds == UNION {{p.id : p \in ProducedNodes(fi)} : fi \in FileIdx}

\* The part of an id after its last ":".
LastPart(id) == Split(id, ":")[Len(Split(id, ":"))]

\* C28: a placeholder never shares its id with a declared node: the id of
\* every declared node ends in its line number, which is at least 1, and the
\* id of every placeholder ends in 0; every declaration has its own node, no
\* declared node carries metadata.external, and no placeholder has the id of a
\* declaration; also for a file named external.py and for a function declared
\* in one file under the name of an unresolved reference of another.
C28_PlaceholdersStayApart ==
    pc = "done" =>
        /\ \A i \in 1..Len(graph.nodes) :
              LET n == graph.nodes[i] IN
              IF "external" \in DOMAIN n.metadata
              THEN /\ LastPart(n.id) = <<"0">>
                   /\ n.id \notin DeclaredIds
              ELSE /\ n.line >= 1
                   /\ LastPart(n.id) = NumToStr(n.line)
                   /\ n.id \in DeclaredIds
        /\ \A id \in DeclaredIds :
              \E i \in 1..Len(graph.nodes) :
                  /\ graph.nodes[i].id = id
                  /\ "external" \notin DOMAIN graph.nodes[i].metadata

\* external.py declares the function g at line 7, n.py calls a g that it
\* neither declares nor imports, and the graph has the declared node and the
\* placeholder.
C28_Witness ==
    /\ pc = "done"
    /\ IsDeclared(functionNodeId(<<"e", "x", "t", "e", "r", "n", "a", "l">>, <<"g">>, 7), SFunction)
    /\ IsPlaceholder(externalFunctionNodeId(<<"g">>), SFunction)
    /\ \E fi \in FileIdx : files[fi].name = NameExternal


(***************************************************************************)
(* CodeUploader.tsx.  The component keeps the selected files in the state   *)
(* `items`.  onDrop is an async function: it awaits file.text() for each    *)
(* accepted file in turn, and only after the last read does it merge what   *)
(* it parsed into the `items` of the render that created it.  Each file of  *)
(* the pool carries a content that no other file has, so that a file can be *)
(* followed through a rename.                                               *)
(***************************************************************************)
DEFAULT_MAX_SIZE == 5 * 1024 * 1024

DEFAULT_EXTS == << <<".", "p", "y">> >>

UpperCase ==
    << "A", "B", "C", "D", "E", "F", "G", "H", "I", "J", "K", "L", "M",
       "N", "O", "P", "Q", "R", "S", "T", "U", "V", "W", "X", "Y", "Z" >>

LowerCase ==
    << "a", "b", "c", "d", "e", "f", "g", "h", "i", "j", "k", "l", "m",
       "n", "o", "p", "q", "r", "s", "t", "u", "v", "w", "x", "y", "z" >>

LowerOfChar(c) ==
    IF \E i \in DOMAIN UpperCase : UpperCase[i] = c
    THEN LowerCase[CHOOSE i \in DOMAIN UpperCase : UpperCase[i] = c]
    ELSE c

\* s.toLowerCase()
toLowerCase(s) == [i \in DOMAIN s |-> LowerOfChar(s[i])]

\* fileSchema(maxSize, allowedExts).safeParse(file).success
fileSchema(maxSize, allowedExts, file) ==
    /\ \E e \in DOMAIN allowedExts :
          EndsWith(toLowerCase(file.name), toLowerCase(allowedExts[e]))
    /\ file.size <= maxSize

\* base.lastIndexOf("."), 0-based (-1: none)
lastIndexOfDot(base) == Greatest({i \in DOMAIN base : base[i] = "."} \cup {0}) - 1

\* `${prefix} (${counter})${ext}`
candidateName(base, counter) ==
    IF lastIndexOfDot(base) > 0
    THEN SubSeq(base, 1, lastIndexOfDot(base)) \o <<" ", "(">> \o NumToStr(counter)
             \o <<")">> \o SubSeq(base, lastIndexOfDot(base) + 1, Len(base))
    ELSE base \o <<" ", "(">> \o NumToStr(counter) \o <<")">>

RECURSIVE freeName(_, _, _, _)
\* The while loop of onDrop: the first of base, base (1), base (2), ... that
\* existingNames does not have.
freeName(existingNames, base, candidate, counter) ==
    IF candidate \in existingNames
    THEN freeName(existingNames, base, candidateName(base, counter), counter + 1)
    ELSE candidate

ItemNames(its) == {its[i].name : i \in DOMAIN its}

RECURSIVE mergeParsed(_, _, _)
\* for (const p of parsed) { ...; existingNames.add(candidate); merged.push(...) }
mergeParsed(merged, parsed, k) ==
    IF k > Len(parsed) THEN merged
    ELSE mergeParsed(
             Append(merged,
                    [name |-> freeName(ItemNames(merged), parsed[k].name,
                                       parsed[k].name, 1),
                     content |-> parsed[k].content]),
             parsed, k + 1)

\* The files the user has at hand: two files called a.py, one called b.py and
\* one whose extension is in capitals.
DropPool ==
    { [name |-> NameA, size |-> 1, content |-> "a1"],
      [name |-> NameA, size |-> 2, content |-> "a2"],
      [name |-> NameB, size |-> 3, content |-> "b3"],
      [name |-> <<"c", ".", "P", "Y">>, size |-> 4, content |-> "c4"] }

\* The most files the user drops at once.
MaxDropFiles == 2

\* The outcomes of file.text().
ReadOutcomes == {"text", "rejected"}

NewUploader ==
    [mounted  |-> TRUE,
     items    |-> <<>>,          \* the state `items` as last rendered
     reported |-> <<>>,          \* the last list handed to onChange
     drops    |-> <<>>,          \* the onDrop calls that are awaiting a read
     dropped  |-> {},            \* contents handed to onDrop so far
     accepted |-> {},            \* contents read and validated by an onDrop
     removed  |-> {},            \* contents the user removed from the items
     overlap  |-> FALSE]         \* a drop began while another awaited a read

InitUploader ==
    /\ BuilderIdle
    /\ ParserIdle
    /\ RouteIdle
    /\ PageIdle
    /\ ViewIdle
    /\ uploader = NewUploader

uploaderFrame == <<request, page, view>>

\* emitChange(next): setItems(next); onChange?.(next)
emitChange(u, next) == [u EXCEPT !.items = next, !.reported = next]

\* The user drops files: onDrop runs to its first await.  The closure holds
\* the items of the render in which the callback was made.
Drop ==
    /\ uploader.mounted
    /\ \E fs \in ListsUpTo({f \in DropPool : f.content \notin uploader.dropped},
                           MaxDropFiles) :
          /\ fs # <<>>
          /\ \A i, j \in DOMAIN fs : fs[i] = fs[j] => i = j
          /\ uploader' =
                [uploader EXCEPT
                    !.drops = Append(@, [files |-> fs, items |-> uploader.items,
                                         parsed |-> <<>>, at |-> 1]),
                    !.dropped = @ \cup {fs[i].content : i \in DOMAIN fs},
                    !.overlap = @ \/ uploader.drops # <<>>]
    /\ UNCHANGED builderVars
    /\ UNCHANGED parserVars
    /\ UNCHANGED uploaderFrame

\* What the drop d has parsed once the read of its current file has settled.
parsedAfter(d, outcome) ==
    IF outcome = "text"
       /\ fileSchema(DEFAULT_MAX_SIZE, DEFAULT_EXTS, d.files[d.at])
    THEN Append(d.parsed, [name |-> d.files[d.at].name,
                           content |-> d.files[d.at].content])
    ELSE d.parsed

WithoutDrop(ds, i) == SubSeq(ds, 1, i - 1) \o SubSeq(ds, i + 1, Len(ds))

\* A read of file.text() settles and onDrop resumes: it validates the file
\* and either awaits the next read or, after the last file, merges what it
\* parsed into the items of its closure and emits the merged list.
ReadSettles ==
    /\ uploader.mounted
    /\ \E i \in DOMAIN uploader.drops : \E outcome \in ReadOutcomes :
          uploader' =
             IF uploader.drops[i].at < Len(uploader.drops[i].files)
             THEN [uploader EXCEPT
                      !.drops[i].parsed = parsedAfter(uploader.drops[i], outcome),
                      !.drops[i].at = @ + 1,
                      !.accepted = @ \cup
                          {parsedAfter(uploader.drops[i], outcome)[k].content :
                              k \in DOMAIN parsedAfter(uploader.drops[i], outcome)}]
             ELSE IF parsedAfter(uploader.drops[i], outcome) # <<>>
             THEN [emitChange(uploader,
                              mergeParsed(uploader.drops[i].items,
                                          parsedAfter(uploader.drops[i], outcome), 1))
                     EXCEPT
                      !.drops = WithoutDrop(@, i),
                      !.accepted = @ \cup
                          {parsedAfter(uploader.drops[i], outcome)[k].content :
                              k \in DOMAIN parsedAfter(uploader.drops[i], outcome)}]
             ELSE [uploader EXCEPT !.drops = WithoutDrop(@, i)]
    /\ UNCHANGED builderVars
    /\ UNCHANGED parserVars
    /\ UNCHANGED uploaderFrame

\* emitChange(items.filter((it) => it.name !== name))
handleRemoveItem ==
    /\ uploader.mounted
    /\ \E name \in ItemNames(uploader.items) :
          uploader' =
             [emitChange(uploader,
                         SelectSeq(uploader.items, LAMBDA it : it.name # name))
                EXCEPT !.removed = @ \cup
                   {uploader.items[k].content :
                       k \in {j \in DOMAIN uploader.items : uploader.items[j].name = name}}]
    /\ UNCHANGED builderVars
    /\ UNCHANGED parserVars
    /\ UNCHANGED uploaderFrame

\* setSnippets([...]); emitChange([])
clearAll ==
    /\ uploader.mounted
    /\ uploader' =
          [emitChange(uploader, <<>>)
             EXCEPT !.removed = @ \cup
                {uploader.items[k].content : k \in DOMAIN uploader.items}]
    /\ UNCHANGED builderVars
    /\ UNCHANGED parserVars
    /\ UNCHANGED uploaderFrame

NextUploader == Drop \/ ReadSettles \/ handleRemoveItem \/ clearAll

SpecUploader == InitUploader /\ [][NextUploader]_vars

ItemContents == {uploader.items[i].content : i \in DOMAIN uploader.items}

\* No two items have the same name.
NamesApart ==
    \A i, j \in DOMAIN uploader.items :
        uploader.items[i].name = uploader.items[j].name => i = j

\* C29: once every drop has completed, the items hold every file that a drop
\* accepted and that the user has not removed or cleared, and no two items
\* have the same name.
C29_AcceptedFilesStay ==
    uploader.mounted /\ uploader.drops = <<>> =>
        /\ uploader.accepted \ uploader.removed \subseteq ItemContents
        /\ NamesApart

\* Two drops overlapped, both have completed, nothing was removed, and a file
\* that one of them accepted is not among the items.
C29_Witness ==
    /\ uploader.mounted
    /\ uploader.drops = <<>>
    /\ uploader.overlap
    /\ uploader.removed = {}
    /\ "a1" \in uploader.accepted
    /\ "b3" \in uploader.accepted
    /\ "a1" \notin ItemContents
    /\ "b3" \in ItemContents

\* At every moment the names of the items differ.
NamesAlwaysApart == uploader.mounted => NamesApart

\* As long as no drop begins while another awaits a read, the accepted files
\* that were not removed are all among the items once the drops are done.
AcceptedStayWithoutOverlap ==
    uploader.mounted /\ uploader.drops = <<>> /\ ~uploader.overlap =>
        uploader.accepted \ uploader.removed \subseteq ItemContents

====
